---- MODULE Spec2Model ----
(***************************************************************************)
(* A model of the quickjs-debugger client library: the framed transport    *)
(* (addMessageListener / sendMessage), the debug connection                *)
(* (QuickJSDebugConnection) of src/lib/connection.ts and its callback-     *)
(* style predecessor (QuickJSDebugProtocol) of lib/protocol.js.            *)
(*                                                                         *)
(* Text is modelled as sequences of Unicode code points and buffers as     *)
(* sequences of bytes, so that byte lengths, UTF-8 widths and the hex      *)
(* header are computed the way the code computes them.                     *)
(***************************************************************************)
EXTENDS Integers, Sequences, FiniteSets, TLC

(***************************************************************************)
(* Bounds of the model.                                                    *)
(***************************************************************************)
\* number of sendRequest calls explored on one connection
MaxRequests == 2
\* number of fire-and-forget sendEnvelope calls explored
MaxEnvelopes == 1
\* number of 'data' events the socket delivers to the connection
MaxData == 2
\* number of messages the framing harness frames with sendMessage
MaxMessages == 2
\* number of malformed frames a peer may put on the framing harness's stream
MaxRaw == 1
\* the largest chunk the harness's stream delivers, short of all it holds
MaxChunk == 12
\* number of calls the application makes on a session
MaxCalls == 2
\* number of sockets the REPL's server is handed
MaxSockets == 3

(***************************************************************************)
(* String literals of the source, as code point sequences.                 *)
(***************************************************************************)
Str_version == <<118, 101, 114, 115, 105, 111, 110>>  \* "version"
Str_type == <<116, 121, 112, 101>>  \* "type"
Str_request == <<114, 101, 113, 117, 101, 115, 116>>  \* "request"
Str_request_seq == <<114, 101, 113, 117, 101, 115, 116, 95, 115, 101, 113>>  \* "request_seq"
Str_command == <<99, 111, 109, 109, 97, 110, 100>>  \* "command"
Str_args == <<97, 114, 103, 115>>  \* "args"
Str_body == <<98, 111, 100, 121>>  \* "body"
Str_error == <<101, 114, 114, 111, 114>>  \* "error"
Str_event == <<101, 118, 101, 110, 116>>  \* "event"
Str_response == <<114, 101, 115, 112, 111, 110, 115, 101>>  \* "response"
Str_resume == <<114, 101, 115, 117, 109, 101>>  \* "resume"
Str_next == <<110, 101, 120, 116>>  \* "next"
Str_stopOnException == <<115, 116, 111, 112, 79, 110, 69, 120, 99, 101, 112, 116, 105, 111, 110>>  \* "stopOnException"
Str_StoppedEvent == <<83, 116, 111, 112, 112, 101, 100, 69, 118, 101, 110, 116>>  \* "StoppedEvent"
Str_end == <<101, 110, 100>>  \* "end"
Str_oops == <<111, 111, 112, 115>>  \* "oops"
Str_ProtocolIsClosed == <<80, 114, 111, 116, 111, 99, 111, 108, 32, 105, 115, 32, 99, 108, 111, 115, 101, 100>>  \* "Protocol is closed"
Str_RequestTimeout == <<82, 101, 113, 117, 101, 115, 116, 32, 116, 105, 109, 101, 111, 117, 116, 32>>  \* "Request timeout "
Str_ECONNRESET == <<114, 101, 97, 100, 32, 69, 67, 79, 78, 78, 82, 69, 83, 69, 84>>  \* "read ECONNRESET"
Str_MsExceed == <<109, 115, 32, 101, 120, 99, 101, 101, 100, 46>>  \* "ms exceed."
Str_protocol == <<112, 114, 111, 116, 111, 99, 111, 108>>  \* "protocol"
Str_ProtocolEvent == <<80, 114, 111, 116, 111, 99, 111, 108, 69, 118, 101, 110, 116>>  \* "ProtocolEvent"
Str_PrintEvent == <<80, 114, 105, 110, 116, 69, 118, 101, 110, 116>>  \* "PrintEvent"
Str_ThreadEvent == <<84, 104, 114, 101, 97, 100, 69, 118, 101, 110, 116>>  \* "ThreadEvent"
Str_terminated == <<116, 101, 114, 109, 105, 110, 97, 116, 101, 100>>  \* "terminated"
Str_stopped == <<115, 116, 111, 112, 112, 101, 100>>  \* "stopped"
Str_context == <<99, 111, 110, 116, 101, 120, 116>>  \* "context"
Str_log == <<108, 111, 103>>  \* "log"
Str_targetModuleUuid == <<116, 97, 114, 103, 101, 116, 77, 111, 100, 117, 108, 101, 85, 117, 105, 100>>  \* "targetModuleUuid"
Str_target_module_uuid == <<116, 97, 114, 103, 101, 116, 95, 109, 111, 100, 117, 108, 101, 95, 117, 117, 105, 100>>  \* "target_module_uuid"
Str_passcode == <<112, 97, 115, 115, 99, 111, 100, 101>>  \* "passcode"
Str_breakpoints == <<98, 114, 101, 97, 107, 112, 111, 105, 110, 116, 115>>  \* "breakpoints"
Str_setBreakpoints == <<115, 101, 116, 66, 114, 101, 97, 107, 112, 111, 105, 110, 116, 115>>  \* "setBreakpoints"
Str_path == <<112, 97, 116, 104>>  \* "path"
Str_line == <<108, 105, 110, 101>>  \* "line"
Str_verified == <<118, 101, 114, 105, 102, 105, 101, 100>>  \* "verified"
Str_minecraftCommand == <<109, 105, 110, 101, 99, 114, 97, 102, 116, 67, 111, 109, 109, 97, 110, 100>>  \* "minecraftCommand"
Str_dimension_type == <<100, 105, 109, 101, 110, 115, 105, 111, 110, 95, 116, 121, 112, 101>>  \* "dimension_type"
Str_overworld == <<111, 118, 101, 114, 119, 111, 114, 108, 100>>  \* "overworld"
Str_nether == <<110, 101, 116, 104, 101, 114>>  \* "nether"
Str_startProfiler == <<115, 116, 97, 114, 116, 80, 114, 111, 102, 105, 108, 101, 114>>  \* "startProfiler"
Str_stopProfiler == <<115, 116, 111, 112, 80, 114, 111, 102, 105, 108, 101, 114>>  \* "stopProfiler"
Str_profiler == <<112, 114, 111, 102, 105, 108, 101, 114>>  \* "profiler"
Str_captures_path == <<99, 97, 112, 116, 117, 114, 101, 115, 95, 112, 97, 116, 104>>  \* "captures_path"
Str_ClientNotSupported == <<67, 108, 105, 101, 110, 116, 32, 110, 111, 116, 32, 115, 117, 112, 112, 111, 114, 116, 101, 100>>  \* "Client not supported"
Str_ExpectTargetModuleUuid == <<69, 120, 112, 101, 99, 116, 32, 116, 97, 114, 103, 101, 116, 32, 109, 111, 100, 117, 108, 101, 32, 117, 117, 105, 100>>  \* "Expect target module uuid"
Str_U == <<85>>  \* "U"
Str_P == <<80>>  \* "P"
Str_mainjs == <<109, 97, 105, 110, 46, 106, 115>>  \* "main.js"
Str_say == <<115, 97, 121>>  \* "say"
Str_caps == <<99, 97, 112, 115>>  \* "caps"
Str_variables == <<118, 97, 114, 105, 97, 98, 108, 101, 115>>  \* "variables"
Str_variablesReference == <<118, 97, 114, 105, 97, 98, 108, 101, 115, 82, 101, 102, 101, 114, 101, 110, 99, 101>>  \* "variablesReference"
Str_filter == <<102, 105, 108, 116, 101, 114>>  \* "filter"
Str_indexed == <<105, 110, 100, 101, 120, 101, 100>>  \* "indexed"
Str_start == <<115, 116, 97, 114, 116>>  \* "start"
Str_count == <<99, 111, 117, 110, 116>>  \* "count"
Str_name == <<110, 97, 109, 101>>  \* "name"
Str_value == <<118, 97, 108, 117, 101>>  \* "value"
Str_indexedVariables == <<105, 110, 100, 101, 120, 101, 100, 86, 97, 114, 105, 97, 98, 108, 101, 115>>  \* "indexedVariables"
Str_string == <<115, 116, 114, 105, 110, 103>>  \* "string"
Str_integer == <<105, 110, 116, 101, 103, 101, 114>>  \* "integer"
Str_float == <<102, 108, 111, 97, 116>>  \* "float"
Str_boolean == <<98, 111, 111, 108, 101, 97, 110>>  \* "boolean"
Str_null == <<110, 117, 108, 108>>  \* "null"
Str_undefined == <<117, 110, 100, 101, 102, 105, 110, 101, 100>>  \* "undefined"
Str_object == <<111, 98, 106, 101, 99, 116>>  \* "object"
Str_function == <<102, 117, 110, 99, 116, 105, 111, 110>>  \* "function"
Str_true == <<116, 114, 117, 101>>  \* "true"
Str_proto == <<95, 95, 112, 114, 111, 116, 111, 95, 95>>  \* "__proto__"
Str_NaNText == <<78, 97, 78>>  \* "NaN"
Str_ObjectObject == <<91, 111, 98, 106, 101, 99, 116, 32, 79, 98, 106, 101, 99, 116, 93>>  \* "[object Object]"
Str_prev == <<112, 114, 101, 118>>  \* "prev"
Str_x == <<120>>  \* "x"
Str_y == <<121>>  \* "y"
Str_a == <<97>>  \* "a"
Str_b == <<98>>  \* "b"
Str_s == <<115>>  \* "s"
Str_v == <<118>>  \* "v"
Str_array == <<97, 114, 114, 97, 121>>  \* "array"
Str_number == <<110, 117, 109, 98, 101, 114>>  \* "number"
Str_false == <<102, 97, 108, 115, 101>>  \* "false"
Str_hi == <<104, 105>>  \* "hi"
Str_eighth == <<48, 46, 49, 50, 53>>  \* "0.125"
Str_result == <<114, 101, 115, 117, 108, 116>>  \* "result"
Str_symbol == <<115, 121, 109, 98, 111, 108>>  \* "symbol"
Str_SymbolText == <<83, 121, 109, 98, 111, 108, 40, 115, 41>>  \* "Symbol(s)"
Str_two == <<50>>  \* "2"
Str_minus12 == <<45, 49, 50>>  \* "-12"
Str_12px == <<49, 50, 112, 120>>  \* "12px"
Str_FunctionText == <<102, 117, 110, 99, 116, 105, 111, 110, 32, 102, 40, 41, 32, 123, 125>>  \* "function f() {}"

(***************************************************************************)
(* JavaScript values.  Every value is a record tagged by t; objects keep   *)
(* their properties in insertion order.                                    *)
(***************************************************************************)
Undefined == [t |-> "undefined"]
JNull == [t |-> "null"]
JNum(n) == [t |-> "num", n |-> n]
JStr(s) == [t |-> "str", s |-> s]
JBool(b) == [t |-> "bool", b |-> b]
JObj(kv) == [t |-> "obj", kv |-> kv]
JArr(items) == [t |-> "arr", items |-> items]
Prop(k, v) == [k |-> k, v |-> v]

\* obj.key : the value of the property, undefined when absent
Get(obj, key) ==
    IF obj.t # "obj" THEN Undefined
    ELSE IF \E i \in DOMAIN obj.kv : obj.kv[i].k = key
         THEN obj.kv[CHOOSE i \in DOMAIN obj.kv : obj.kv[i].k = key].v
         ELSE Undefined

\* { ...obj, key: value } : an existing key keeps its position, a new one is appended
SetProp(kv, key, value) ==
    IF \E i \in DOMAIN kv : kv[i].k = key
    THEN [i \in DOMAIN kv |-> IF kv[i].k = key THEN Prop(key, value) ELSE kv[i]]
    ELSE Append(kv, Prop(key, value))

RECURSIVE SpreadInto(_, _)
\* { ...kv, ...data }
SpreadInto(kv, data) ==
    IF data = <<>> THEN kv
    ELSE SpreadInto(SetProp(kv, Head(data).k, Head(data).v), Tail(data))

\* JavaScript truthiness of a value (if (response.error))
Truthy(v) ==
    CASE v.t = "undefined" -> FALSE
      [] v.t = "null" -> FALSE
      [] v.t = "num" -> v.n # 0
      [] v.t = "str" -> v.s # <<>>
      [] v.t = "bool" -> v.b
      [] OTHER -> TRUE

\* value ?? fallback
Nullish(value, fallback) == IF value.t \in {"undefined", "null"} THEN fallback ELSE value

(***************************************************************************)
(* Number formatting and parsing.                                          *)
(***************************************************************************)
\* the digit characters "0123456789abcdef"
DigitChar(d) == IF d < 10 THEN 48 + d ELSE 87 + d

RECURSIVE NumberToString(_, _)
\* Number.prototype.toString(radix) for a non-negative integer
NumberToString(n, radix) ==
    IF n < radix THEN <<DigitChar(n)>>
    ELSE Append(NumberToString(n \div radix, radix), DigitChar(n % radix))

RECURSIVE padStart(_, _, _)
\* String.prototype.padStart(targetLength, padString) with a one-character pad
padStart(s, targetLength, pad) ==
    IF Len(s) >= targetLength THEN s ELSE padStart(<<pad>> \o s, targetLength, pad)

\* the value of a hexadecimal digit character, -1 when it is none
HexValue(c) ==
    IF c >= 48 /\ c <= 57 THEN c - 48
    ELSE IF c >= 97 /\ c <= 102 THEN c - 87
    ELSE IF c >= 65 /\ c <= 70 THEN c - 55
    ELSE -1

\* the characters StrWhiteSpaceChar strips: tab, LF, VT, FF, CR, space
IsWhiteSpace(c) == c \in {9, 10, 11, 12, 13, 32}

\* IEEE NaN, kept apart from every integer parseInt can return
NaN == [t |-> "NaN"]

RECURSIVE SkipWhiteSpace(_)
SkipWhiteSpace(s) ==
    IF s # <<>> /\ IsWhiteSpace(Head(s)) THEN SkipWhiteSpace(Tail(s)) ELSE s

RECURSIVE HexPrefixLength(_)
\* the length of the longest prefix of s made of hexadecimal digits
HexPrefixLength(s) ==
    IF s # <<>> /\ HexValue(Head(s)) >= 0 THEN 1 + HexPrefixLength(Tail(s)) ELSE 0

RECURSIVE HexDigitsValue(_, _)
HexDigitsValue(s, acc) ==
    IF s = <<>> THEN acc ELSE HexDigitsValue(Tail(s), acc * 16 + HexValue(Head(s)))

\* parseInt(string, 16): leading white space, an optional sign, an optional
\* 0x prefix, then the longest run of hexadecimal digits; NaN when there is none
parseInt16(string) ==
    LET s0 == SkipWhiteSpace(string)
        negative == s0 # <<>> /\ Head(s0) = 45
        s1 == IF s0 # <<>> /\ Head(s0) \in {43, 45} THEN Tail(s0) ELSE s0
        s2 == IF Len(s1) >= 2 /\ s1[1] = 48 /\ s1[2] \in {120, 88}
              THEN SubSeq(s1, 3, Len(s1)) ELSE s1
        n == HexPrefixLength(s2)
        magnitude == HexDigitsValue(SubSeq(s2, 1, n), 0)
    IN  IF n = 0 THEN NaN
        ELSE [t |-> "num", n |-> IF negative THEN 0 - magnitude ELSE magnitude]

(***************************************************************************)
(* Buffers: UTF-8 and subarray.                                            *)
(***************************************************************************)
\* the UTF-8 bytes of one code point (Buffer.from(string) encodes as UTF-8)
Utf8Bytes(c) ==
    IF c < 128 THEN <<c>>
    ELSE IF c < 2048 THEN <<192 + (c \div 64), 128 + (c % 64)>>
    ELSE <<224 + (c \div 4096), 128 + ((c \div 64) % 64), 128 + (c % 64)>>

RECURSIVE BufferFrom(_)
\* Buffer.from(string): the UTF-8 encoding of the string; a string of ASCII
\* characters is its own encoding
BufferFrom(string) ==
    IF \A i \in DOMAIN string : string[i] < 128 THEN string
    ELSE Utf8Bytes(Head(string)) \o BufferFrom(Tail(string))

IsContinuation(b) == b >= 128 /\ b <= 191

RECURSIVE BufferToString(_)
\* buffer.toString(): UTF-8 decoding, U+FFFD for a byte that starts no
\* sequence; ASCII bytes decode to themselves
BufferToString(b) ==
    IF \A i \in DOMAIN b : b[i] < 128 THEN b
    ELSE IF b[1] < 128 THEN <<b[1]>> \o BufferToString(Tail(b))
    ELSE IF b[1] >= 194 /\ b[1] <= 223 /\ Len(b) >= 2 /\ IsContinuation(b[2])
         THEN <<(b[1] - 192) * 64 + (b[2] - 128)>> \o BufferToString(SubSeq(b, 3, Len(b)))
    ELSE IF b[1] >= 224 /\ b[1] <= 239 /\ Len(b) >= 3
            /\ IsContinuation(b[2]) /\ IsContinuation(b[3])
         THEN <<(b[1] - 224) * 4096 + (b[2] - 128) * 64 + (b[3] - 128)>>
              \o BufferToString(SubSeq(b, 4, Len(b)))
    ELSE <<65533>> \o BufferToString(Tail(b))

RECURSIVE BufferConcat(_)
\* Buffer.concat(list)
BufferConcat(list) ==
    IF list = <<>> THEN <<>> ELSE Head(list) \o BufferConcat(Tail(list))

\* an index argument of subarray: negative counts from the end, then clamped
ClampIndex(i, len) ==
    IF i < 0 THEN (IF len + i < 0 THEN 0 ELSE len + i)
    ELSE IF i > len THEN len ELSE i

\* buffer.subarray(start, end) (and the legacy buffer.slice(start, end))
subarray(buffer, start, end) ==
    LET s == ClampIndex(start, Len(buffer))
        e == ClampIndex(end, Len(buffer))
    IN  IF e <= s THEN <<>> ELSE SubSeq(buffer, s + 1, e)

\* buffer.subarray(start)
subarrayFrom(buffer, start) == subarray(buffer, start, Len(buffer))

(***************************************************************************)
(* JSON.stringify and JSON.parse.                                          *)
(***************************************************************************)
RECURSIVE QuoteChars(_)
\* the body of a JSON string literal: ", \ and LF are escaped
QuoteChars(s) ==
    IF s = <<>> THEN <<>>
    ELSE (CASE Head(s) = 34 -> <<92, 34>>
            [] Head(s) = 92 -> <<92, 92>>
            [] Head(s) = 10 -> <<92, 110>>
            [] OTHER -> <<Head(s)>>) \o QuoteChars(Tail(s))

Quote(s) == <<34>> \o QuoteChars(s) \o <<34>>

RECURSIVE JSONstringify(_)
RECURSIVE StringifyProps(_, _)
RECURSIVE StringifyItems(_, _)
\* the members of an object; a property whose value is undefined is left out
StringifyProps(kv, first) ==
    IF kv = <<>> THEN <<>>
    ELSE IF Head(kv).v.t = "undefined" THEN StringifyProps(Tail(kv), first)
    ELSE (IF first THEN <<>> ELSE <<44>>) \o Quote(Head(kv).k) \o <<58>>
         \o JSONstringify(Head(kv).v) \o StringifyProps(Tail(kv), FALSE)

StringifyItems(items, first) ==
    IF items = <<>> THEN <<>>
    ELSE (IF first THEN <<>> ELSE <<44>>) \o JSONstringify(Head(items))
         \o StringifyItems(Tail(items), FALSE)

\* JSON.stringify(value), for the values the model builds
JSONstringify(v) ==
    CASE v.t = "num" -> (IF v.n < 0 THEN <<45>> \o NumberToString(0 - v.n, 10)
                         ELSE NumberToString(v.n, 10))
      [] v.t = "str" -> Quote(v.s)
      [] v.t = "null" -> <<110, 117, 108, 108>>
      [] v.t = "bool" -> (IF v.b THEN <<116, 114, 117, 101>> ELSE <<102, 97, 108, 115, 101>>)
      [] v.t = "obj" -> <<123>> \o StringifyProps(v.kv, TRUE) \o <<125>>
      [] v.t = "arr" -> <<91>> \o StringifyItems(v.items, TRUE) \o <<93>>

\* the white space JSON allows around a value: tab, LF, CR, space
IsJSONWhiteSpace(c) == c \in {9, 10, 13, 32}

RECURSIVE TrimJSON(_)
TrimJSON(s) ==
    IF s # <<>> /\ IsJSONWhiteSpace(Head(s)) THEN TrimJSON(Tail(s))
    ELSE IF s # <<>> /\ IsJSONWhiteSpace(s[Len(s)]) THEN TrimJSON(SubSeq(s, 1, Len(s) - 1))
    ELSE s

IsDigit(c) == c >= 48 /\ c <= 57

\* whether s is a JSON integer literal: -?(0|[1-9][0-9]*)
IsIntegerLiteral(s) ==
    LET d == IF s # <<>> /\ Head(s) = 45 THEN Tail(s) ELSE s
    IN  /\ d # <<>>
        /\ \A i \in DOMAIN d : IsDigit(d[i])
        /\ (Len(d) > 1 => d[1] # 48)

RECURSIVE DecimalValue(_, _)
DecimalValue(s, acc) ==
    IF s = <<>> THEN acc ELSE DecimalValue(Tail(s), acc * 10 + (Head(s) - 48))

IntegerLiteralValue(s) ==
    IF Head(s) = 45 THEN 0 - DecimalValue(Tail(s), 0) ELSE DecimalValue(s, 0)

(***************************************************************************)
(* State.                                                                  *)
(***************************************************************************)
VARIABLES
    impl,              \* the class constructed on the socket: "connection"
                       \* (QuickJSDebugConnection) or "protocol" (QuickJSDebugProtocol)
    \* --- the socket ---
    socketState,       \* "open", "ended" ('end' was emitted) or "destroyed" (after 'error')
    socketWrites,      \* the buffers handed to socket.write, in order
    \* --- addMessageListener's closure ---
    chunks,            \* the buffered chunks, kept as their concatenation: the
                       \* listener reads the list only through Buffer.concat(chunks)
    bufferLength,      \* the byte counter
    state,             \* "length" or "content" ("null" in the legacy parser)
    triggerLength,     \* the number of bytes the next step waits for
    \* --- QuickJSDebugConnection ---
    requestSeq,        \* the request_seq of the next request
    requestReactions,  \* the Map request_seq -> reaction, a reaction named by its promise
    promises,          \* the promise of each sendRequest call (Promise.withResolvers)
    futures,           \* the promise each sendRequest call returned (promise.finally(...))
    timers,            \* the timeout of each sendRequest call
    emitted,           \* what the connection emitted, in order
    uncaught,          \* the exceptions thrown out of the socket's 'data' listener
    returned,          \* QuickJSDebugProtocol: the returned flag of each sendRequest call
    callbacks,         \* the callbacks the application attached to its requests, each
                       \* with the calls it received
    \* --- the session constructed on the connection ---
    session,           \* "none", "session" (QuickJSDebugSession) or "minecraft"
                       \* (MinecraftDebugSession)
    protocolVersion,   \* MinecraftDebugSession.protocolVersion
    protocolInfo,      \* MinecraftDebugSession.protocolInfo, undefined when not set
    sessionEmitted,    \* what the session emitted, in order
    protocolListener,  \* what the application's listener for the session's 'protocol'
                       \* event does: "none" when it registered no listener
    \* --- one call of QuickJSHandle.inspect ---
    inspected,         \* the promise inspect returned; NotCalled before the call
    inspectProto,      \* options.inspectProto
    referenceMap,      \* options.referenceMap: ref -> the container made for it
    heap,              \* the containers inspect created, named by their position
    tasks,             \* the inspectInternal calls that made a container, each named by
                       \* the request_seq of its variables request
    \* --- the debuggee of that call ---
    graph,             \* the object graph the debuggee holds
    answered,          \* the requests the debuggee has answered
    \* --- bookkeeping of the explored runs ---
    envelopesSent,     \* the number of calls the application made, sendRequest aside
    dataEvents,        \* the number of 'data' events delivered
    lastEvent,         \* the call or event handled last, with its input
    \* --- the framing harness: a stream looped back into a parser ---
    sentMessages,      \* the messages passed to sendMessage
    rawWrites,         \* the number of frames written without sendMessage
    fed,               \* the number of bytes of the stream the parser has been given
    delivered,         \* the buffers the parser passed to onMessage
    legacy,            \* the closure of lib/protocol.js's addMessageListener given the
                       \* same 'data' events, with the buffers it passed to onMessage
    \* --- the REPL's MCQuickJSDebugServer ---
    server,            \* its fields socket, connection, session and paused
    incoming           \* the sockets its net.Server was handed, each with its state

socketVars == <<socketState, socketWrites>>
parserVars == <<chunks, bufferLength, state, triggerLength>>
sessionVars == <<session, protocolVersion, protocolInfo, sessionEmitted, protocolListener>>
inspectVars == <<inspected, inspectProto, referenceMap, heap, tasks, graph, answered>>
connVars == <<impl, requestSeq, requestReactions, promises, futures, timers, emitted, uncaught,
              returned, callbacks, sessionVars, inspectVars>>
runVars == <<envelopesSent, dataEvents, lastEvent>>
replVars == <<server, incoming>>
harnessVars == <<sentMessages, rawWrites, fed, delivered, legacy, replVars>>
vars == <<socketVars, parserVars, connVars, runVars, harnessVars>>

(***************************************************************************)
(* sendMessage.                                                            *)
(***************************************************************************)
\* the width the hex length is padded to
HeaderDigits == 8
\* the bytes of a header: the hex digits and the newline
HeaderLength == 9

\* the body sendMessage frames: Buffer.from(`${JSON.stringify(message)}\n`)
MessageBuffer(message) == BufferFrom(JSONstringify(message) \o <<10>>)

\* a sendMessage that announces the number of characters instead of bytes
PacketCountingChars(message) ==
    LET text == JSONstringify(message) \o <<10>>
        buffer == BufferFrom(text)
        lf == BufferFrom(<<10>>)
    IN  BufferConcat(<<BufferFrom(padStart(NumberToString(Len(text), 16), HeaderDigits, 48)),
                       lf, buffer>>)

\* the packet sendMessage hands to socket.write
Packet(message) ==
    LET buffer == MessageBuffer(message)
        lf == BufferFrom(<<10>>)
    IN  BufferConcat(<<BufferFrom(padStart(NumberToString(Len(buffer), 16), HeaderDigits, 48)),
                       lf, buffer>>)

\* sendMessage(message): one socket.write of the packet
sendMessage(writes, message) == Append(writes, Packet(message))

\* the body of a packet: what follows the header
PacketBody(packet) == SubSeq(packet, HeaderLength + 1, Len(packet))

(***************************************************************************)
(* addMessageListener: the 'data' listener.                                *)
(***************************************************************************)
\* bufferLength >= triggerLength; every comparison with NaN is false
GE(n, trigger) == trigger.t = "num" /\ n >= trigger.n

ParserFields(p) ==
    [chunks |-> p.chunks, bufferLength |-> p.bufferLength,
     state |-> p.state, triggerLength |-> p.triggerLength]

RECURSIVE dataLoop(_)
\* a loop that runs while (bufferLength > triggerLength)
dataLoopStrict(p) ==
    IF ~(p.triggerLength.t = "num" /\ p.bufferLength > p.triggerLength.n) THEN p
    ELSE
        LET n == p.triggerLength.n
            bufferedChunk == p.chunks
            triggerChunk == subarray(bufferedChunk, 0, n)
            q == [p EXCEPT !.bufferLength = p.bufferLength - n,
                           !.chunks = subarrayFrom(bufferedChunk, n)]
        IN  CASE p.state = "length" ->
                   dataLoop([q EXCEPT !.state = "content",
                                      !.triggerLength = parseInt16(BufferToString(triggerChunk))])
              [] p.state = "content" ->
                   dataLoop([q EXCEPT !.state = "length",
                                      !.triggerLength = JNum(HeaderLength),
                                      !.calls = Append(p.calls,
                                          [message |-> triggerChunk, during |-> ParserFields(q)])])
              [] OTHER ->
                   dataLoop([q EXCEPT !.state = "length", !.triggerLength = JNum(HeaderLength)])

\* the while loop of the listener.  p.calls collects the onMessage calls in
\* order; each call carries the closure as it stands while onMessage runs,
\* which is how an exception thrown by onMessage leaves it.
dataLoop(p) ==
    IF ~GE(p.bufferLength, p.triggerLength) THEN p
    ELSE
        LET n == p.triggerLength.n
            bufferedChunk == p.chunks
            triggerChunk == subarray(bufferedChunk, 0, n)
            q == [p EXCEPT !.bufferLength = p.bufferLength - n,
                           !.chunks = subarrayFrom(bufferedChunk, n)]
        IN  CASE p.state = "length" ->
                   dataLoop([q EXCEPT !.state = "content",
                                      !.triggerLength = parseInt16(BufferToString(triggerChunk))])
              [] p.state = "content" ->
                   dataLoop([q EXCEPT !.state = "length",
                                      !.triggerLength = JNum(HeaderLength),
                                      !.calls = Append(p.calls,
                                          [message |-> triggerChunk, during |-> ParserFields(q)])])
              [] OTHER ->
                   dataLoop([q EXCEPT !.state = "length", !.triggerLength = JNum(HeaderLength)])

\* socket.on('data', chunk => ...)
onData(p, chunk) ==
    dataLoop([chunks |-> p.chunks \o chunk,
              bufferLength |-> p.bufferLength + Len(chunk),
              state |-> p.state,
              triggerLength |-> p.triggerLength,
              calls |-> <<>>])

Parser == [chunks |-> chunks, bufferLength |-> bufferLength,
           state |-> state, triggerLength |-> triggerLength]

SetParser(p) ==
    /\ chunks' = p.chunks
    /\ bufferLength' = p.bufferLength
    /\ state' = p.state
    /\ triggerLength' = p.triggerLength

(***************************************************************************)
(* MCQuickJSDebugServer of the REPL: the fields that name its debuggee, and *)
(* the sockets of its net.Server.  A socket is "none" before it connects,   *)
(* "open" once onConnection made a connection and a session on it,          *)
(* "closing" after the server called end() on it, "refused" when            *)
(* onConnection ended it at once, and "ended" after its 'end' event.        *)
(***************************************************************************)
Sockets == 1..MaxSockets
\* null
Null == 0

\* the fields after construction and after reset()
NoDebuggee == [socket |-> Null, connection |-> Null, session |-> Null, paused |-> FALSE]

\* connection.close(): this.socket.end()
close(r, s) == [r EXCEPT !.incoming[s] = IF @ = "open" THEN "closing" ELSE @]

\* reset()
reset(r) ==
    LET r1 == IF r.server.connection # Null THEN close(r, r.server.connection) ELSE r
    IN  [r1 EXCEPT !.server = NoDebuggee]

\* onConnection(socket): the listeners it registers are serverOnSessionEnd and
\* serverOnConnectionEnd
onConnection(r, s) ==
    IF r.server.connection # Null THEN [r EXCEPT !.incoming[s] = "refused"]
    ELSE [r EXCEPT !.server = [socket |-> s, connection |-> s, session |-> s, paused |-> TRUE],
                   !.incoming[s] = "open"]

\* this.session.on('end', () => { this.connection?.close(); })
serverOnSessionEnd(r) ==
    IF r.server.connection # Null THEN close(r, r.server.connection) ELSE r

\* this.connection.on('end', () => { this.connection = null; ...; this.reset(); ... })
serverOnConnectionEnd(r) == reset([r EXCEPT !.server.connection = Null])

\* a legacy closure that waits for a header before its first step
legacyClosureWaitingHeader ==
    [parser |-> [chunks |-> <<>>, bufferLength |-> 0, state |-> "null",
                 triggerLength |-> JNum(HeaderLength)],
     delivered |-> <<>>]

\* the closure of lib/protocol.js's addMessageListener when it returns:
\* state = null, triggerLength = 0, and nothing passed to onMessage
legacyClosure ==
    [parser |-> [chunks |-> <<>>, bufferLength |-> 0, state |-> "null",
                 triggerLength |-> JNum(0)],
     delivered |-> <<>>]

\* the closure of addMessageListener when it returns
ParserInit ==
    /\ chunks = <<>>
    /\ bufferLength = 0
    /\ state = "length"
    /\ triggerLength = JNum(HeaderLength)

(***************************************************************************)
(* Maps, promises and timers.                                              *)
(***************************************************************************)
EmptyMap == <<>>
\* map.has(key): a Map compares keys by SameValueZero, with no coercion
MapHas(map, key) == key.t = "num" /\ key.n \in DOMAIN map
\* map.set(k, v)
MapSet(map, k, v) == [x \in DOMAIN map \cup {k} |-> IF x = k THEN v ELSE map[x]]
\* map.delete(k)
MapDelete(map, k) == [x \in DOMAIN map \ {k} |-> map[x]]

Pending == [state |-> "pending"]
Fulfilled(value) == [state |-> "fulfilled", value |-> value]
Rejected(reason) == [state |-> "rejected", value |-> reason]

\* new Error(message)
Error(message) == [t |-> "Error", message |-> message]

\* String(value), for the values an error string can be
StringOf(v) ==
    CASE v.t = "str" -> v.s
      [] v.t = "num" -> JSONstringify(v)
      [] OTHER -> <<>>

requestTimeout == 10000
requestVersion == 1

\* a promise settles once: resolve and reject are no-ops on a settled promise.
\* Settling queues the reaction registered by promise.finally as a microtask.
Settle(c, p, outcome) ==
    IF c.promises[p].state = "pending"
    THEN [c EXCEPT !.promises[p] = outcome, !.jobs = Append(@, p)]
    ELSE c

resolve(c, p, value) == Settle(c, p, Fulfilled(value))
reject(c, p, reason) == Settle(c, p, Rejected(reason))

\* clearTimeout(timeout): cancels a timer that has not fired
clearTimeout(tm, p) == IF tm[p] = "armed" THEN [tm EXCEPT ![p] = "cleared"] ELSE tm

\* a finally callback that forgets this.requestReactions.delete(requestSeq)
onFinallyKeepsEntry(c, p) ==
    [c EXCEPT !.timers = clearTimeout(@, p),
              !.futures[p] = c.promises[p]]

\* a finally callback that forgets clearTimeout(timeout)
onFinallyKeepsTimer(c, p) ==
    [c EXCEPT !.requestReactions = MapDelete(@, p),
              !.futures[p] = c.promises[p]]

\* the callback sendRequest passes to promise.finally, then the settling of
\* the promise finally returned
onFinally(c, p) ==
    [c EXCEPT !.timers = clearTimeout(@, p),
              !.requestReactions = MapDelete(@, p),
              !.futures[p] = c.promises[p]]

\* an exception leaving the running handler
Throw(c, name) == [c EXCEPT !.thrown = name]

(***************************************************************************)
(* QuickJSDebugConnection.                                                 *)
(***************************************************************************)
\* the state of inspect's promise before the call
NotCalled == [state |-> "none"]

\* no inspect call was made
NoInspect ==
    /\ inspected = NotCalled
    /\ inspectProto = FALSE
    /\ referenceMap = EmptyMap
    /\ heap = <<>>
    /\ tasks = EmptyMap
    /\ graph = "none"
    /\ answered = {}

\* the connection as a record, for the operators that transform it
Conn ==
    [impl |-> impl, socketWrites |-> socketWrites, requestSeq |-> requestSeq,
     requestReactions |-> requestReactions, promises |-> promises,
     futures |-> futures, timers |-> timers, emitted |-> emitted,
     returned |-> returned, callbacks |-> callbacks,
     session |-> session, protocolVersion |-> protocolVersion,
     protocolInfo |-> protocolInfo, sessionEmitted |-> sessionEmitted,
     protocolListener |-> protocolListener,
     inspected |-> inspected, inspectProto |-> inspectProto,
     referenceMap |-> referenceMap, heap |-> heap, tasks |-> tasks,
     graph |-> graph, answered |-> answered,
     jobs |-> <<>>, thrown |-> "none", value |-> Undefined]

SetConn(after) ==
    \E c \in {after} :
        /\ impl' = c.impl
        /\ returned' = c.returned
        /\ callbacks' = c.callbacks
        /\ socketWrites' = c.socketWrites
        /\ requestSeq' = c.requestSeq
        /\ requestReactions' = c.requestReactions
        /\ promises' = c.promises
        /\ futures' = c.futures
        /\ timers' = c.timers
        /\ emitted' = c.emitted
        /\ session' = c.session
        /\ protocolVersion' = c.protocolVersion
        /\ protocolInfo' = c.protocolInfo
        /\ sessionEmitted' = c.sessionEmitted
        /\ protocolListener' = c.protocolListener
        /\ inspected' = c.inspected
        /\ inspectProto' = c.inspectProto
        /\ referenceMap' = c.referenceMap
        /\ heap' = c.heap
        /\ tasks' = c.tasks
        /\ graph' = c.graph
        /\ answered' = c.answered
        /\ uncaught' = IF c.thrown = "none" THEN uncaught ELSE Append(uncaught, c.thrown)

\* a sendEnvelope that spreads the data first: { ...data, version, type }
sendEnvelopeDataFirst(c, type, data) ==
    LET own == <<Prop(Str_version, JNum(requestVersion)), Prop(Str_type, JStr(type))>>
        message == JObj(IF data.t = "obj" THEN SpreadInto(data.kv, own) ELSE own)
    IN  [c EXCEPT !.socketWrites = sendMessage(@, message)]

\* a sendEnvelope that takes a request_seq as sendRequestRaw does
sendEnvelopeCountingSeq(c, type, data) ==
    LET own == <<Prop(Str_version, JNum(requestVersion)), Prop(Str_type, JStr(type))>>
        message == JObj(IF data.t = "obj" THEN SpreadInto(own, data.kv) ELSE own)
    IN  [c EXCEPT !.socketWrites = sendMessage(@, message), !.requestSeq = @ + 1]

\* sendEnvelope(type, data): { version: this.requestVersion, type, ...data }
sendEnvelope(c, type, data) ==
    LET own == <<Prop(Str_version, JNum(requestVersion)), Prop(Str_type, JStr(type))>>
        message == JObj(IF data.t = "obj" THEN SpreadInto(own, data.kv) ELSE own)
    IN  [c EXCEPT !.socketWrites = sendMessage(@, message)]

(***************************************************************************)
(* The listeners a session registers on its connection, and emit, which    *)
(* calls them synchronously.                                               *)
(***************************************************************************)
\* ProtocolVersion.Unknown
Unknown == 0

\* version >= n, for the protocol versions the debuggee can announce
VersionAtLeast(version, n) == version.t = "num" /\ version.n >= n

\* ProtocolVersion
SupportPasscode == 4
SupportProfilerCaptures == 5
SupportBreakpointsAsRequest == 6

\* version < n
VersionBelow(version, n) == version.t = "num" /\ version.n < n

\* throw new Error(message), out of an operation the application called
ThrowError(c, message) == [c EXCEPT !.thrown = "Error", !.value = Error(message)]

\* setProtocolInfo(protocolInfo)
setProtocolInfo(c, info) == [c EXCEPT !.protocolInfo = info, !.value = Undefined]

\* a sendMinecraftCommand that nests the command from version 4 on
sendMinecraftCommandNestedEarly(c, command, dimensionType) ==
    IF VersionAtLeast(c.protocolVersion, SupportPasscode)
    THEN sendEnvelope(c, Str_minecraftCommand,
             JObj(<<Prop(Str_command,
                 JObj(<<Prop(Str_command, command),
                        Prop(Str_dimension_type,
                             Nullish(dimensionType, JStr(Str_overworld)))>>))>>))
    ELSE ThrowError(c, Str_ClientNotSupported)

\* sendMinecraftCommand(command, dimensionType)
sendMinecraftCommand(c, command, dimensionType) ==
    IF VersionAtLeast(c.protocolVersion, SupportProfilerCaptures)
    THEN sendEnvelope(c, Str_minecraftCommand,
             JObj(<<Prop(Str_command,
                 JObj(<<Prop(Str_command, command),
                        Prop(Str_dimension_type,
                             Nullish(dimensionType, JStr(Str_overworld)))>>))>>))
    ELSE IF VersionAtLeast(c.protocolVersion, SupportPasscode)
    THEN sendEnvelope(c, Str_minecraftCommand,
             JObj(<<Prop(Str_command, command),
                    Prop(Str_dimension_type, Nullish(dimensionType, JStr(Str_overworld)))>>))
    ELSE ThrowError(c, Str_ClientNotSupported)

\* the listener the application registered for the session's 'protocol'
\* event: none, one that calls setProtocolInfo and one that calls
\* sendMinecraftCommand, an operation gated by the protocol version
ListenerInfo ==
    JObj(<<Prop(Str_version, JNum(5)), Prop(Str_targetModuleUuid, JStr(Str_U)),
           Prop(Str_passcode, JStr(Str_P))>>)

onProtocol(c) ==
    CASE c.protocolListener = "setProtocolInfo" -> setProtocolInfo(c, ListenerInfo)
      [] c.protocolListener = "sendMinecraftCommand" ->
             sendMinecraftCommand(c, JStr(Str_say), Undefined)
      [] OTHER -> c

\* session.emit(event, ...args): the listeners run before emit returns
sessionEmit(c, event, args) ==
    LET d == [c EXCEPT !.sessionEmitted = Append(@, [channel |-> JStr(event), args |-> args])]
    IN  IF event = Str_protocol THEN onProtocol(d) ELSE d

\* a ProtocolEvent listener that reads this.protocolInfo before it notifies
\* the session's listeners
onProtocolEventReadsInfoFirst(c, ev) ==
    LET c1 == [c EXCEPT !.protocolVersion = Get(ev, Str_version)]
        info == c1.protocolInfo
        c2 == sessionEmit(c1, Str_protocol, <<ev>>)
    IN  IF c2.thrown # "none" THEN c2
        ELSE IF Truthy(info)
        THEN sendEnvelope(c2, Str_protocol,
                 JObj(<<Prop(Str_version, Get(info, Str_version)),
                        Prop(Str_target_module_uuid, Get(info, Str_targetModuleUuid)),
                        Prop(Str_passcode, Get(info, Str_passcode))>>))
        ELSE c2

\* a ProtocolEvent listener that answers without looking at this.protocolInfo
onProtocolEventAlwaysAnswers(c, ev) ==
    LET c1 == [c EXCEPT !.protocolVersion = Get(ev, Str_version)]
        c2 == sessionEmit(c1, Str_protocol, <<ev>>)
        info == c2.protocolInfo
    IN  IF c2.thrown # "none" THEN c2
        ELSE sendEnvelope(c2, Str_protocol,
            JObj(<<Prop(Str_version, Get(info, Str_version)),
                   Prop(Str_target_module_uuid, Get(info, Str_targetModuleUuid)),
                   Prop(Str_passcode, Get(info, Str_passcode))>>))

\* a ProtocolEvent listener that keeps the first version it was told
onProtocolEventKeepsFirst(c, ev) ==
    LET c1 == IF c.protocolVersion = JNum(Unknown)
              THEN [c EXCEPT !.protocolVersion = Get(ev, Str_version)] ELSE c
        c2 == sessionEmit(c1, Str_protocol, <<ev>>)
        info == c2.protocolInfo
    IN  IF c2.thrown # "none" THEN c2
        ELSE IF Truthy(info)
        THEN sendEnvelope(c2, Str_protocol,
                 JObj(<<Prop(Str_version, Get(info, Str_version)),
                        Prop(Str_target_module_uuid, Get(info, Str_targetModuleUuid)),
                        Prop(Str_passcode, Get(info, Str_passcode))>>))
        ELSE c2

\* connection.on('ProtocolEvent', ...) of MinecraftDebugSession
onProtocolEvent(c, ev) ==
    LET c1 == [c EXCEPT !.protocolVersion = Get(ev, Str_version)]
        c2 == sessionEmit(c1, Str_protocol, <<ev>>)
        info == c2.protocolInfo
    IN  IF c2.thrown # "none" THEN c2
        ELSE IF Truthy(info)
        THEN sendEnvelope(c2, Str_protocol,
                 JObj(<<Prop(Str_version, Get(info, Str_version)),
                        Prop(Str_target_module_uuid, Get(info, Str_targetModuleUuid)),
                        Prop(Str_passcode, Get(info, Str_passcode))>>))
        ELSE c2

\* a constructor that bridges the connection's end signal, not 'terminated'
sessionListenersOnEnd(c, channel, args) ==
    CASE channel = JStr(Str_StoppedEvent) -> sessionEmit(c, Str_stopped, <<args[1]>>)
      [] channel = JStr(Str_ThreadEvent) -> sessionEmit(c, Str_context, <<args[1]>>)
      [] channel = JStr(Str_end) -> sessionEmit(c, Str_end, <<>>)
      [] OTHER -> c

\* the listeners the constructor of QuickJSDebugSession registers
sessionListeners(c, channel, args) ==
    CASE channel = JStr(Str_StoppedEvent) -> sessionEmit(c, Str_stopped, <<args[1]>>)
      [] channel = JStr(Str_ThreadEvent) -> sessionEmit(c, Str_context, <<args[1]>>)
      [] channel = JStr(Str_terminated) -> sessionEmit(c, Str_end, <<>>)
      [] OTHER -> c

\* the listeners the constructor of MinecraftDebugSession adds
minecraftListeners(c, channel, args) ==
    CASE channel = JStr(Str_PrintEvent) -> sessionEmit(c, Str_log, <<args[1]>>)
      [] channel = JStr(Str_ProtocolEvent) -> onProtocolEvent(c, args[1])
      [] OTHER -> c

\* the listeners of a channel, in the order they were registered
listeners(c, channel, args) ==
    CASE c.session = "session" -> sessionListeners(c, channel, args)
      [] c.session = "minecraft" ->
             minecraftListeners(sessionListeners(c, channel, args), channel, args)
      [] OTHER -> c

\* emitter.emit(channel, ...args)
emit(c, channel, args) ==
    listeners([c EXCEPT !.emitted = Append(@, [channel |-> channel, args |-> args])],
              channel, args)

\* a sendRequestRaw that reads this.requestSeq after incrementing it
sendRequestRawPreIncrement(c, command, args) ==
    LET seq == c.requestSeq + 1
        request == JObj(<<Prop(Str_request_seq, JNum(seq)),
                          Prop(Str_command, JStr(command)),
                          Prop(Str_args, args)>>)
        d == sendEnvelope([c EXCEPT !.requestSeq = @ + 1], Str_request,
                          JObj(<<Prop(Str_request, request)>>))
    IN  [d EXCEPT !.value = JNum(seq)]

\* sendRequestRaw(command, args): returns the request_seq it used
sendRequestRaw(c, command, args) ==
    LET seq == c.requestSeq
        request == JObj(<<Prop(Str_request_seq, JNum(seq)),
                          Prop(Str_command, JStr(command)),
                          Prop(Str_args, args)>>)
        d == sendEnvelope([c EXCEPT !.requestSeq = @ + 1], Str_request,
                          JObj(<<Prop(Str_request, request)>>))
    IN  [d EXCEPT !.value = JNum(seq)]

\* a sendRequest that arms no timer
sendRequestWithoutTimer(c, command, args) ==
    LET d == sendRequestRaw(c, command, args)
        seq == d.value.n
    IN  [d EXCEPT !.promises = MapSet(@, seq, Pending),
                  !.requestReactions = MapSet(@, seq, seq),
                  !.timers = MapSet(@, seq, "cleared"),
                  !.futures = MapSet(@, seq, Pending)]

\* sendRequest(command, args).  The promise, its timer and the promise that is
\* returned are named by the request_seq they were created for.
sendRequest(c, command, args) ==
    LET d == sendRequestRaw(c, command, args)
        seq == d.value.n
    IN  [d EXCEPT !.promises = MapSet(@, seq, Pending),
                  !.requestReactions = MapSet(@, seq, seq),
                  !.timers = MapSet(@, seq, "armed"),
                  !.futures = MapSet(@, seq, Pending)]

\* the timeout callback of sendRequest
onTimeout(c, p) ==
    LET timeoutError == Error(Str_RequestTimeout \o NumberToString(requestTimeout, 10)
                              \o Str_MsExceed)
    IN  reject([c EXCEPT !.timers[p] = "fired"], p, timeoutError)

RECURSIVE rejectAll(_, _, _)
\* reactions.forEach(({ reject }) => reject(new Error('Protocol is closed')))
rejectAll(c, reactions, keys) ==
    IF keys = {} THEN c
    ELSE LET k == CHOOSE x \in keys : \A y \in keys : x <= y
         IN  rejectAll(reject(c, reactions[k], Error(Str_ProtocolIsClosed)),
                       reactions, keys \ {k})

RECURSIVE rejectAllEmitting(_, _, _)
rejectAllEmitting(c, reactions, keys) ==
    IF keys = {} THEN c
    ELSE LET k == CHOOSE x \in keys : \A y \in keys : x <= y
         IN  rejectAllEmitting(
                 reject(emit(c, JStr(Str_end), <<>>), reactions[k], Error(Str_ProtocolIsClosed)),
                 reactions, keys \ {k})

\* an 'end' listener that emits end inside the forEach, once per reaction
onEndEmitsPerReaction(c) ==
    LET reactions == c.requestReactions
        c2 == [c EXCEPT !.requestReactions = EmptyMap]
    IN  rejectAllEmitting(c2, reactions, DOMAIN reactions)

\* socket.on('end', ...)
onEnd(c) ==
    LET c1 == emit(c, JStr(Str_end), <<>>)
        reactions == c1.requestReactions
        c2 == [c1 EXCEPT !.requestReactions = EmptyMap]
        c3 == rejectAll(c2, reactions, DOMAIN reactions)
    IN  [c3 EXCEPT !.requestReactions = EmptyMap]

\* socket.on('error', err => this.emit('error', err))
onError(c, err) == emit(c, JStr(Str_error), <<err>>)

(***************************************************************************)
(* QuickJSDebugProtocol (lib/protocol.js): the callback-style class.  Its  *)
(* sendMessage, sendEnvelope and sendRequestRaw are those above, and its   *)
(* 'data' listener is the loop above started with state null and           *)
(* triggerLength 0.                                                        *)
(***************************************************************************)
\* the callback of the promise form of sendRequest:
\* (err, result) => { if (err) reject(err); else resolve(result); }
callback(c, p, err, result) ==
    LET outcome == IF Truthy(err) THEN Rejected(err) ELSE Fulfilled(result)
    IN  IF c.promises[p].state = "pending"
        THEN [c EXCEPT !.promises[p] = outcome, !.futures[p] = outcome]
        ELSE c

\* sendRequest(command, args, callback) with a callback of the application:
\* no promise is made
protocolSendRequestCallback(c, command, args, kind) ==
    LET d == sendRequestRaw(c, command, args)
        seq == d.value.n
    IN  [d EXCEPT !.returned = MapSet(@, seq, FALSE),
                  !.requestReactions = MapSet(@, seq, seq),
                  !.timers = MapSet(@, seq, "armed"),
                  !.callbacks = MapSet(@, seq, [kind |-> kind, calls |-> <<>>])]

\* connection.sendRequest(command).catch(handler)
sendRequestCatch(c, command, kind) ==
    LET d == sendRequest(c, command, Undefined)
    IN  [d EXCEPT !.callbacks = MapSet(@, d.value.n, [kind |-> kind, calls |-> <<>>])]

\* a callback of the application, of one of two kinds: "record" notes the
\* call; "retry" notes it and, given an error, sends the request once more
\* with a callback that records.  A call is noted with the keys the pending
\* map holds while the callback runs.
applicationCallback(c, p, err, result) ==
    LET c1 == [c EXCEPT !.callbacks[p].calls =
                   Append(@, [err |-> err, result |-> result,
                              pending |-> DOMAIN c.requestReactions])]
    IN  IF c.callbacks[p].kind = "retry" /\ Truthy(err)
        THEN IF c.impl = "protocol"
             THEN protocolSendRequestCallback(c1, Str_next, Undefined, "record")
             ELSE sendRequestCatch(c1, Str_next, "record")
        ELSE c1

\* the callback parameter of sendRequest: the application's, or the one of
\* the promise form
callbackOf(c, p, err, result) ==
    IF p \in DOMAIN c.callbacks THEN applicationCallback(c, p, err, result)
    ELSE callback(c, p, err, result)

\* cb = (err, body, json) => { if (returned) return; returned = true; ... }
cb(c, p, err, body) ==
    IF c.returned[p] THEN c
    ELSE LET d == callbackOf([c EXCEPT !.returned[p] = TRUE], p, err, body)
         IN  [d EXCEPT !.timers = clearTimeout(@, p)]

\* sendRequest(command, args) without a callback: the promise returned is the
\* one the callback settles
protocolSendRequest(c, command, args) ==
    LET d == sendRequestRaw(c, command, args)
        seq == d.value.n
    IN  [d EXCEPT !.promises = MapSet(@, seq, Pending),
                  !.futures = MapSet(@, seq, Pending),
                  !.returned = MapSet(@, seq, FALSE),
                  !.requestReactions = MapSet(@, seq, seq),
                  !.timers = MapSet(@, seq, "armed")]

\* the timeout callback of QuickJSDebugProtocol.sendRequest
protocolOnTimeout(c, p) ==
    LET timeoutError == Error(Str_RequestTimeout \o NumberToString(requestTimeout, 10)
                              \o Str_MsExceed)
        c1 == [c EXCEPT !.timers[p] = "fired"]
    IN  IF c1.returned[p] THEN c1
        ELSE LET d == callbackOf([c1 EXCEPT !.returned[p] = TRUE], p, timeoutError, Undefined)
             IN  [d EXCEPT !.requestReactions = MapDelete(@, p)]

RECURSIVE callbackAll(_, _)
\* this.requestCallbacks.forEach(callback => callback(new Error("Protocol is closed"))).
\* Map.prototype.forEach walks the live map in insertion order, which is the
\* order of the keys, and visits an entry that is added while it runs.
callbackAll(c, visited) ==
    LET keys == DOMAIN c.requestReactions \ visited
    IN  IF keys = {} THEN c
        ELSE LET k == CHOOSE x \in keys : \A y \in keys : x <= y
             IN  callbackAll(cb(c, c.requestReactions[k], Error(Str_ProtocolIsClosed),
                                Undefined),
                             visited \cup {k})

\* socket.on("end", ...) of QuickJSDebugProtocol
protocolOnEnd(c) ==
    LET c1 == emit(c, JStr(Str_end), <<>>)
        c2 == callbackAll(c1, {})
    IN  [c2 EXCEPT !.requestReactions = EmptyMap]

(***************************************************************************)
(* QuickJSVariable, QuickJSHandle.inspect and the session's                *)
(* inspectVariable.  A container inspect creates lives in heap and is      *)
(* named by its position there, so that two references to one container    *)
(* are told from two equal containers.                                     *)
(***************************************************************************)
RECURSIVE DigitsPrefixLength(_)
\* the length of the longest prefix of s made of decimal digits
DigitsPrefixLength(s) ==
    IF s # <<>> /\ IsDigit(Head(s)) THEN 1 + DigitsPrefixLength(Tail(s)) ELSE 0

\* parseInt(string, 10)
parseInt10(string) ==
    LET s == SkipWhiteSpace(string)
        signed == s # <<>> /\ Head(s) \in {43, 45}
        digits == IF signed THEN Tail(s) ELSE s
        n == DigitsPrefixLength(digits)
    IN  IF n = 0 THEN NaN
        ELSE IF signed /\ Head(s) = 45
        THEN JNum(0 - DecimalValue(SubSeq(digits, 1, n), 0))
        ELSE JNum(DecimalValue(SubSeq(digits, 1, n), 0))

\* parseFloat(string), for the texts without fraction or exponent; a text with
\* a fraction denotes the number it spells
parseFloat(string) ==
    LET s == SkipWhiteSpace(string)
        signed == s # <<>> /\ Head(s) \in {43, 45}
        digits == IF signed THEN Tail(s) ELSE s
        n == DigitsPrefixLength(digits)
    IN  IF n = 0 THEN NaN
        ELSE IF n < Len(digits) /\ digits[n + 1] = 46
                  /\ DigitsPrefixLength(SubSeq(digits, n + 2, Len(digits))) > 0
        THEN [t |-> "float",
              text |-> SubSeq(s, 1, (IF signed THEN 1 ELSE 0) + n + 1
                                    + DigitsPrefixLength(SubSeq(digits, n + 2, Len(digits))))]
        ELSE parseInt10(string)

\* String(value)
String(value) ==
    CASE value.t = "str" -> value.s
      [] value.t = "num" -> JSONstringify(value)
      [] value.t = "bool" -> JSONstringify(value)
      [] value.t = "null" -> Str_null
      [] value.t = "undefined" -> Str_undefined
      [] value.t = "NaN" -> Str_NaNText
      [] value.t = "float" -> value.text

\* new QuickJSHandle(session, reference)
Handle(reference) ==
    [ref |-> reference, name |-> JStr(<<35>> \o String(reference)), type |-> Undefined,
     primitive |-> Undefined, primitiveValue |-> Undefined, isArray |-> Undefined,
     indexedCount |-> Undefined, valueAsString |-> Undefined]

\* a constructor whose object case tells an array by indexedVariables being
\* truthy, not by its presence
VariableArrayWhenTruthy(variableInfo) ==
    LET type == Get(variableInfo, Str_type)
        value == Get(variableInfo, Str_value)
        h == [Handle(Get(variableInfo, Str_variablesReference)) EXCEPT
                  !.name = Get(variableInfo, Str_name), !.type = type,
                  !.primitive = JBool(TRUE), !.isArray = JBool(FALSE)]
    IN  CASE type = JStr(Str_string) -> [h EXCEPT !.primitiveValue = value]
          [] type = JStr(Str_integer) -> [h EXCEPT !.primitiveValue = parseInt10(String(value))]
          [] type = JStr(Str_float) -> [h EXCEPT !.primitiveValue = parseFloat(String(value))]
          [] type = JStr(Str_boolean) ->
                 [h EXCEPT !.primitiveValue = JBool(value = JStr(Str_true))]
          [] type = JStr(Str_null) -> [h EXCEPT !.primitiveValue = JNull]
          [] type = JStr(Str_undefined) -> [h EXCEPT !.primitiveValue = Undefined]
          [] type \in {JStr(Str_object), JStr(Str_function)} ->
                 [h EXCEPT !.isArray = JBool(Truthy(Get(variableInfo, Str_indexedVariables))),
                           !.indexedCount = Get(variableInfo, Str_indexedVariables),
                           !.valueAsString = value,
                           !.primitive = JBool(FALSE)]
          [] OTHER -> [h EXCEPT !.valueAsString = value, !.primitive = JBool(FALSE)]

\* new QuickJSVariable(session, variableInfo)
Variable(variableInfo) ==
    LET type == Get(variableInfo, Str_type)
        value == Get(variableInfo, Str_value)
        h == [Handle(Get(variableInfo, Str_variablesReference)) EXCEPT
                  !.name = Get(variableInfo, Str_name), !.type = type,
                  !.primitive = JBool(TRUE), !.isArray = JBool(FALSE)]
    IN  CASE type = JStr(Str_string) -> [h EXCEPT !.primitiveValue = value]
          [] type = JStr(Str_integer) -> [h EXCEPT !.primitiveValue = parseInt10(String(value))]
          [] type = JStr(Str_float) -> [h EXCEPT !.primitiveValue = parseFloat(String(value))]
          [] type = JStr(Str_boolean) ->
                 [h EXCEPT !.primitiveValue = JBool(value = JStr(Str_true))]
          [] type = JStr(Str_null) -> [h EXCEPT !.primitiveValue = JNull]
          [] type = JStr(Str_undefined) -> [h EXCEPT !.primitiveValue = Undefined]
          [] type \in {JStr(Str_object), JStr(Str_function)} ->
                 [h EXCEPT !.isArray = JBool(Get(variableInfo, Str_indexedVariables) # Undefined),
                           !.indexedCount = Get(variableInfo, Str_indexedVariables),
                           !.valueAsString = value,
                           !.primitive = JBool(FALSE)]
          [] OTHER -> [h EXCEPT !.valueAsString = value, !.primitive = JBool(FALSE)]

\* QuickJSDebugSession.evaluate after its await:
\* new QuickJSVariable(this, { ...res, name: 'result', value: res.result })
evaluateResult(res) ==
    Variable(JObj(SpreadInto(res.kv, <<Prop(Str_name, JStr(Str_result)),
                                       Prop(Str_value, Get(res, Str_result))>>)))

\* QuickJSHandle.toString(): this.valueAsString ?? String(this.primitiveValue)
toString(handle) ==
    IF handle.valueAsString.t \in {"undefined", "null"}
    THEN JStr(String(handle.primitiveValue))
    ELSE handle.valueAsString

\* a reference to the container at a position of heap
Pointer(id) == [t |-> "container", id |-> id]

\* result = [] or result = {}
NewContainer(isArray) ==
    [isArray |-> isArray, props |-> <<>>, proto |-> [t |-> "default"],
     QuickJSRef |-> Undefined]

\* whether a property name is an array index; such keys come first in an
\* object, in ascending order
IsIndex(name) == IsIntegerLiteral(name) /\ Head(name) # 45

\* result[name] = value
Assign(props, name, value) ==
    IF \E i \in DOMAIN props : props[i].k = name THEN SetProp(props, name, value)
    ELSE IF IsIndex(name)
    THEN LET before == {i \in DOMAIN props :
                            IsIndex(props[i].k)
                                /\ IntegerLiteralValue(props[i].k) < IntegerLiteralValue(name)}
             n == Cardinality(before)
         IN  SubSeq(props, 1, n) \o <<Prop(name, value)>> \o SubSeq(props, n + 1, Len(props))
    ELSE Append(props, Prop(name, value))

\* typeof value === 'object'
TypeofObject(value) == value.t \in {"container", "null", "obj", "arr"}

\* where the value of an inspectInternal call goes: to the caller of inspect
\* (parent 0), or into the container of the call that awaits it, as the
\* property name or as the prototype
Root == [parent |-> 0, name |-> <<>>, proto |-> FALSE]
Child(parent, name, proto) == [parent |-> parent, name |-> name, proto |-> proto]

\* the code that runs after an await of inspectInternal
deliver(c, k, value) ==
    IF k.parent = 0 THEN [c EXCEPT !.inspected = Fulfilled(value)]
    ELSE LET id == c.tasks[k.parent].id
         IN  IF k.proto
             THEN IF TypeofObject(value) THEN [c EXCEPT !.heap[id].proto = value] ELSE c
             ELSE [c EXCEPT !.heap[id].props = Assign(@, k.name, value)]

\* a getProperties that drops its options
getPropertiesUnfiltered(c, handle) ==
    sendRequest(c, Str_variables, JObj(<<Prop(Str_variablesReference, handle.ref)>>))

\* this.session.inspectVariable(this.ref, getPropOptions), up to its await
getProperties(c, handle) ==
    LET getPropOptions ==
            IF Truthy(handle.isArray)
            THEN <<Prop(Str_filter, JStr(Str_indexed)), Prop(Str_start, JNum(0)),
                   Prop(Str_count, handle.indexedCount)>>
            ELSE <<>>
    IN  sendRequest(c, Str_variables,
                    JObj(SpreadInto(<<Prop(Str_variablesReference, handle.ref)>>,
                                    getPropOptions)))

\* await this.getProperties(): the call that made the container id is a task
\* from here on, keyed by the request c.value it awaits, and the call that
\* awaits this one has one more to wait for
awaitProperties(c, handle, id, depth, k) ==
    LET task == [ref |-> handle.ref, id |-> id, depth |-> depth, k |-> k,
                 waiting |-> 0, state |-> "fetching"]
    IN  IF k.parent = 0 THEN [c EXCEPT !.tasks = MapSet(@, c.value.n, task)]
        ELSE [c EXCEPT !.tasks = [MapSet(@, c.value.n, task)
                                      EXCEPT ![k.parent].waiting = @ + 1]]

\* an inspectInternal that looks a ref up in the reference map and never
\* enters one
inspectInternalWithoutSet(c, handle, depth, k) ==
    IF Truthy(handle.primitive) THEN deliver(c, k, handle.primitiveValue)
    ELSE IF handle.ref.t = "num" /\ handle.ref.n \in DOMAIN c.referenceMap
    THEN deliver(c, k, c.referenceMap[handle.ref.n])
    ELSE IF handle.type = JStr(Str_object) /\ depth > 0
    THEN awaitProperties(
             getProperties([c EXCEPT !.heap = Append(@, NewContainer(Truthy(handle.isArray)))],
                           handle),
             handle, Len(c.heap) + 1, depth, k)
    ELSE deliver(c, k, toString(handle))

\* an inspectInternal that enters a ref in the reference map and never looks
\* one up
inspectInternalWithoutHas(c, handle, depth, k) ==
    IF Truthy(handle.primitive) THEN deliver(c, k, handle.primitiveValue)
    ELSE IF handle.type = JStr(Str_object) /\ depth > 0
    THEN awaitProperties(
             getProperties([c EXCEPT !.heap = Append(@, NewContainer(Truthy(handle.isArray))),
                                     !.referenceMap = MapSet(@, handle.ref.n,
                                                             Pointer(Len(c.heap) + 1))],
                           handle),
             handle, Len(c.heap) + 1, depth, k)
    ELSE deliver(c, k, toString(handle))

\* an inspectInternal that enters functions as it enters objects
inspectInternalEntersFunctions(c, handle, depth, k) ==
    IF Truthy(handle.primitive) THEN deliver(c, k, handle.primitiveValue)
    ELSE IF handle.ref.t = "num" /\ handle.ref.n \in DOMAIN c.referenceMap
    THEN deliver(c, k, c.referenceMap[handle.ref.n])
    ELSE IF handle.type \in {JStr(Str_object), JStr(Str_function)} /\ depth > 0
    THEN awaitProperties(
             getProperties([c EXCEPT !.heap = Append(@, NewContainer(Truthy(handle.isArray))),
                                     !.referenceMap = MapSet(@, handle.ref.n,
                                                             Pointer(Len(c.heap) + 1))],
                           handle),
             handle, Len(c.heap) + 1, depth, k)
    ELSE deliver(c, k, toString(handle))

\* an inspectInternal that enters an object whatever depth is left
inspectInternalUnbounded(c, handle, depth, k) ==
    IF Truthy(handle.primitive) THEN deliver(c, k, handle.primitiveValue)
    ELSE IF handle.ref.t = "num" /\ handle.ref.n \in DOMAIN c.referenceMap
    THEN deliver(c, k, c.referenceMap[handle.ref.n])
    ELSE IF handle.type = JStr(Str_object)
    THEN awaitProperties(
             getProperties([c EXCEPT !.heap = Append(@, NewContainer(Truthy(handle.isArray))),
                                     !.referenceMap = MapSet(@, handle.ref.n,
                                                             Pointer(Len(c.heap) + 1))],
                           handle),
             handle, Len(c.heap) + 1, depth, k)
    ELSE deliver(c, k, toString(handle))

\* inspectInternal(depth, options), up to its first await.  A call that makes
\* a container is a task from then on.
inspectInternal(c, handle, depth, k) ==
    IF Truthy(handle.primitive) THEN deliver(c, k, handle.primitiveValue)
    ELSE IF handle.ref.t = "num" /\ handle.ref.n \in DOMAIN c.referenceMap
    THEN deliver(c, k, c.referenceMap[handle.ref.n])
    ELSE IF handle.type = JStr(Str_object) /\ depth > 0
    THEN awaitProperties(
             getProperties([c EXCEPT !.heap = Append(@, NewContainer(Truthy(handle.isArray))),
                                     !.referenceMap = MapSet(@, handle.ref.n,
                                                             Pointer(Len(c.heap) + 1))],
                           handle),
             handle, Len(c.heap) + 1, depth, k)
    ELSE deliver(c, k, toString(handle))

RECURSIVE startProperties(_, _, _)
\* properties.map(async (property) => { ... }): every callback runs up to its
\* first await, in the order of the properties
startProperties(c, p, properties) ==
    IF properties = <<>> THEN c
    ELSE LET property == Head(properties)
             isProto == property.name = JStr(Str_proto)
         IN  startProperties(
                 IF isProto /\ ~c.inspectProto THEN c
                 ELSE inspectInternal(c, property, c.tasks[p].depth - 1,
                                      Child(p, String(property.name), isProto)),
                 p, Tail(properties))

RECURSIVE finish(_, _)
\* an end of a task that returns the container without tagging it
finishUntagged(c, p) ==
    LET task == c.tasks[p]
        c1 == [c EXCEPT !.tasks[p].state = "done"]
        c2 == deliver(c1, task.k, Pointer(task.id))
    IN  IF task.k.parent = 0 THEN c2
        ELSE LET c3 == [c2 EXCEPT !.tasks[task.k.parent].waiting = @ - 1]
             IN  IF c3.tasks[task.k.parent].waiting = 0 THEN finish(c3, task.k.parent)
                 ELSE c3

\* the end of a task, once Promise.all resolved: the container is tagged and
\* returned to the call that awaits it, which may be the last that call
\* waited for
finish(c, p) ==
    LET task == c.tasks[p]
        c1 == [c EXCEPT !.heap[task.id].QuickJSRef = task.ref, !.tasks[p].state = "done"]
        c2 == deliver(c1, task.k, Pointer(task.id))
    IN  IF task.k.parent = 0 THEN c2
        ELSE LET c3 == [c2 EXCEPT !.tasks[task.k.parent].waiting = @ - 1]
             IN  IF c3.tasks[task.k.parent].waiting = 0 THEN finish(c3, task.k.parent)
                 ELSE c3

\* an inspectInternal that starts the calls for the properties and does not
\* await them: the task ends with what it has
afterAllWithoutAwait(c, p) == finish(c, p)

\* await Promise.all(...): with nothing left to wait for the task ends
afterAll(c, p) == IF c.tasks[p].waiting = 0 THEN finish(c, p) ELSE c

\* the body of inspectVariable after its await: res.map((e) => new QuickJSVariable(this, e)).
\* A rejected request and a body that is no array end in the catch of
\* inspectInternal: properties = []
properties(c, p) ==
    LET future == c.futures[p]
    IN  IF future.state = "fulfilled" /\ future.value.t = "arr"
        THEN [i \in DOMAIN future.value.items |-> Variable(future.value.items[i])]
        ELSE <<>>

\* an inspectInternal without the catch around await this.getProperties():
\* the rejection leaves the call and, through Promise.all, every call above
onPropertiesWithoutCatch(c, p) ==
    IF c.futures[p].state = "rejected"
    THEN [c EXCEPT !.tasks[p].state = "done", !.inspected = Rejected(c.futures[p].value)]
    ELSE afterAll(startProperties([c EXCEPT !.tasks[p].state = "awaiting"], p,
                                  properties(c, p)), p)

\* inspectInternal from the await of getProperties on
onProperties(c, p) ==
    afterAll(startProperties([c EXCEPT !.tasks[p].state = "awaiting"], p, properties(c, p)), p)

\* the default of options.maxDepth
DefaultMaxDepth == 16

\* inspect(options)
inspect(c, handle, maxDepth, proto) ==
    LET c1 == [c EXCEPT !.inspected = Pending, !.referenceMap = EmptyMap,
                        !.inspectProto = proto]
    IN  inspectInternal(c1, handle, Nullish(maxDepth, JNum(DefaultMaxDepth)).n, Root)

\* the reactions to the settling of the promise sendRequest returned for p
reactions(c, p) ==
    IF p \in DOMAIN c.tasks /\ c.tasks[p].state = "fetching" THEN onProperties(c, p)
    ELSE IF c.impl = "connection" /\ p \in DOMAIN c.callbacks /\ c.futures[p].state = "rejected"
    THEN applicationCallback(c, p, c.futures[p].value, Undefined)
    ELSE c

(***************************************************************************)
(* The object graphs of the debuggee: for each ref, the VariableInfo of    *)
(* its properties.                                                         *)
(***************************************************************************)
ObjectInfo(name, ref) ==
    JObj(<<Prop(Str_name, JStr(name)), Prop(Str_value, JStr(Str_ObjectObject)),
           Prop(Str_type, JStr(Str_object)), Prop(Str_variablesReference, JNum(ref))>>)

IntegerInfo(name, n) ==
    JObj(<<Prop(Str_name, JStr(name)), Prop(Str_value, JStr(NumberToString(n, 10))),
           Prop(Str_type, JStr(Str_integer)), Prop(Str_variablesReference, JNum(0))>>)

\* A.next = B, B.prev = A
CycleGraph == <<JArr(<<ObjectInfo(Str_next, 2)>>), JArr(<<ObjectInfo(Str_prev, 1)>>)>>
\* R.x = S, R.y = S, S.v = 7
SharedGraph ==
    <<JArr(<<ObjectInfo(Str_x, 2), ObjectInfo(Str_y, 2)>>), JArr(<<IntegerInfo(Str_v, 7)>>)>>
\* R.a = S, R.b = T, T.s = S, S.v = 7, S.b = T
DiamondGraph ==
    <<JArr(<<ObjectInfo(Str_a, 2), ObjectInfo(Str_b, 3)>>),
      JArr(<<IntegerInfo(Str_v, 7), ObjectInfo(Str_b, 3)>>),
      JArr(<<ObjectInfo(Str_s, 2)>>)>>
\* a chain of three distinct objects: O1.next = O2, O2.next = O3, O3.v = 7
ChainGraph ==
    <<JArr(<<ObjectInfo(Str_next, 2)>>), JArr(<<ObjectInfo(Str_next, 3)>>),
      JArr(<<IntegerInfo(Str_v, 7)>>)>>

PrimitiveInfo(name, type, value) ==
    JObj(<<Prop(Str_name, JStr(name)), Prop(Str_value, JStr(value)),
           Prop(Str_type, JStr(type)), Prop(Str_variablesReference, JNum(0))>>)

ArrayInfo(name, ref, indexedVariables) ==
    JObj(<<Prop(Str_name, JStr(name)), Prop(Str_value, JStr(Str_ObjectObject)),
           Prop(Str_type, JStr(Str_object)), Prop(Str_variablesReference, JNum(ref)),
           Prop(Str_indexedVariables, JNum(indexedVariables))>>)

\* the value of example/evaluate.ts with shorter texts:
\* { number: 1, float: 0.125, string: "hi", boolean: false, null: null,
\*   undefined, object: { array: [1, 2] } }
ValueGraph ==
    <<JArr(<<IntegerInfo(Str_number, 1),
             PrimitiveInfo(Str_float, Str_float, Str_eighth),
             PrimitiveInfo(Str_string, Str_string, Str_hi),
             PrimitiveInfo(Str_boolean, Str_boolean, Str_false),
             PrimitiveInfo(Str_null, Str_null, Str_null),
             PrimitiveInfo(Str_undefined, Str_undefined, Str_undefined),
             ObjectInfo(Str_object, 2)>>),
      JArr(<<ArrayInfo(Str_array, 3, 2)>>),
      JArr(<<IntegerInfo(NumberToString(0, 10), 1), IntegerInfo(NumberToString(1, 10), 2)>>)>>

\* one object at the end of a short and of a long path:
\* R.a = A, R.b = B, A.x = X, B.s = C, C.x = X, X.v = 7
LadderGraph ==
    <<JArr(<<ObjectInfo(Str_a, 2), ObjectInfo(Str_b, 3)>>),
      JArr(<<ObjectInfo(Str_x, 5)>>),
      JArr(<<ObjectInfo(Str_s, 4)>>),
      JArr(<<ObjectInfo(Str_x, 5)>>),
      JArr(<<IntegerInfo(Str_v, 7)>>)>>

Graphs == {CycleGraph, SharedGraph, DiamondGraph, ChainGraph, ValueGraph}

\* the handle to the object with ref 1
RootHandle == Variable(ObjectInfo(<<>>, 1))

\* handles that are no objects: an integer, a function and a value of a type
\* the constructor does not know
FunctionInfo(name, ref) ==
    JObj(<<Prop(Str_name, JStr(name)), Prop(Str_value, JStr(Str_FunctionText)),
           Prop(Str_type, JStr(Str_function)), Prop(Str_variablesReference, JNum(ref))>>)
IntegerHandle == Variable(IntegerInfo(Str_result, 2))
FunctionHandle == Variable(FunctionInfo(Str_result, 1))
OpaqueHandle == Variable(PrimitiveInfo(Str_result, Str_symbol, Str_SymbolText))

\* the handles inspect is called on
Handles == {RootHandle, IntegerHandle, FunctionHandle, OpaqueHandle}

\* the maxDepth options of the explored calls
MaxDepths == {Undefined, JNum(0), JNum(1), JNum(2)}

\* the request_seq values the debuggee answers
MaxInspectRequests == 5
InspectSeqs == 1..MaxInspectRequests
GraphRefs == 1..5

VariablesRequest(seq, ref) ==
    JObj(<<Prop(Str_version, JNum(1)), Prop(Str_type, JStr(Str_request)),
           Prop(Str_request,
                JObj(<<Prop(Str_request_seq, JNum(seq)),
                       Prop(Str_command, JStr(Str_variables)),
                       Prop(Str_args, JObj(<<Prop(Str_variablesReference, JNum(ref))>>))>>))>>)

\* the request for the elements of an array
IndexedRequest(seq, ref, count) ==
    JObj(<<Prop(Str_version, JNum(1)), Prop(Str_type, JStr(Str_request)),
           Prop(Str_request,
                JObj(<<Prop(Str_request_seq, JNum(seq)),
                       Prop(Str_command, JStr(Str_variables)),
                       Prop(Str_args,
                            JObj(<<Prop(Str_variablesReference, JNum(ref)),
                                   Prop(Str_filter, JStr(Str_indexed)),
                                   Prop(Str_start, JNum(0)),
                                   Prop(Str_count, JNum(count))>>))>>))>>)

VariablesResponse(seq, body) ==
    JObj(<<Prop(Str_version, JNum(1)), Prop(Str_type, JStr(Str_response)),
           Prop(Str_request_seq, JNum(seq)), Prop(Str_body, body)>>)


(***************************************************************************)
(* The microtask queue.                                                    *)
(***************************************************************************)
RECURSIVE runMicrotasks(_)
\* the microtask queue is drained before the next event is handled
runMicrotasks(c) ==
    IF c.jobs = <<>> THEN c
    ELSE runMicrotasks(reactions(onFinally([c EXCEPT !.jobs = Tail(@)], Head(c.jobs)),
                                 Head(c.jobs)))

(***************************************************************************)
(* The values put on the streams of the explored runs.                     *)
(***************************************************************************)
\* the body the debuggee returns for request seq, and its error string
BodyOf(seq) == JNum(40 + seq)
ErrorOf(seq) == JStr(Str_oops \o NumberToString(seq, 10))

ResponseOk(seq) ==
    JObj(<<Prop(Str_version, JNum(1)), Prop(Str_type, JStr(Str_response)),
           Prop(Str_request_seq, JNum(seq)), Prop(Str_body, BodyOf(seq))>>)

ResponseError(seq) ==
    JObj(<<Prop(Str_version, JNum(1)), Prop(Str_type, JStr(Str_response)),
           Prop(Str_request_seq, JNum(seq)), Prop(Str_error, ErrorOf(seq))>>)

EventOf(type) == JObj(<<Prop(Str_type, JStr(type))>>)

EventEnvelope(type) ==
    JObj(<<Prop(Str_version, JNum(1)), Prop(Str_type, JStr(Str_event)),
           Prop(Str_event, EventOf(type))>>)

\* the envelopes the debuggee is to receive (section 6 of the wire protocol)
RequestEnvelope(seq, command) ==
    JObj(<<Prop(Str_version, JNum(1)), Prop(Str_type, JStr(Str_request)),
           Prop(Str_request, JObj(<<Prop(Str_request_seq, JNum(seq)),
                                    Prop(Str_command, JStr(command))>>))>>)

ResumeEnvelope == JObj(<<Prop(Str_version, JNum(1)), Prop(Str_type, JStr(Str_resume))>>)

\* an envelope whose type is neither "event" nor "response"
OtherEnvelope == JObj(<<Prop(Str_version, JNum(1)), Prop(Str_type, JStr(Str_resume))>>)

Commands == {Str_next}
WireValues == {RequestEnvelope(seq, command) : seq \in 0..(MaxRequests + 2), command \in Commands}
                  \cup {ResumeEnvelope}
Responses == {ResponseOk(seq) : seq \in 1..MaxRequests}
                 \cup {ResponseError(seq) : seq \in 1..MaxRequests}
EventTypes == {Str_StoppedEvent, Str_end}
DebuggeeValues == Responses \cup {EventEnvelope(type) : type \in EventTypes} \cup {OtherEnvelope}

\* an envelope of type "event" around an event
EventEnvelopeOf(event) ==
    JObj(<<Prop(Str_version, JNum(1)), Prop(Str_type, JStr(Str_event)),
           Prop(Str_event, event)>>)

\* the ProtocolEvent a debuggee of a protocol version sends when a debugger attaches
ProtocolEventOf(version) ==
    JObj(<<Prop(Str_type, JStr(Str_ProtocolEvent)), Prop(Str_version, JNum(version))>>)

\* the protocol versions of the debuggees of the explored runs: below every
\* threshold, and at each of the thresholds 4, 5 and 6
Versions == {1, 4, 5, 6}

\* new BreakpointStatus: { verified }
BreakpointStatus(verified) == JObj(<<Prop(Str_verified, JBool(verified))>>)

\* the verification list the debuggee answers a "setBreakpoints" request with
VerificationList == JArr(<<BreakpointStatus(TRUE), BreakpointStatus(FALSE)>>)

BreakpointsResponse(seq) ==
    JObj(<<Prop(Str_version, JNum(1)), Prop(Str_type, JStr(Str_response)),
           Prop(Str_request_seq, JNum(seq)), Prop(Str_body, VerificationList)>>)

\* what the debuggee of a session sends
SessionDebuggeeValues ==
    {EventEnvelopeOf(ProtocolEventOf(version)) : version \in Versions}
        \cup {EventEnvelope(Str_terminated), BreakpointsResponse(1)}

\* the messages the framing harness frames: a number, a string with a
\* two-byte character (U+00E9) and a string that makes the length need a hex
\* letter
HarnessMessages == {JNum(7), JStr(<<233>>), JStr(<<97, 97, 97, 97, 97, 97, 97, 97>>)}

\* what an inspect call writes and what its debuggee answers
InspectWireValues ==
    {VariablesRequest(seq, ref) : seq \in InspectSeqs, ref \in GraphRefs}
        \cup {IndexedRequest(seq, 3, 2) : seq \in InspectSeqs}
InspectDebuggeeValues ==
    UNION {{VariablesResponse(seq, g[ref]) : seq \in InspectSeqs, ref \in DOMAIN g} :
           g \in Graphs \cup {LadderGraph}}
        \cup {ResponseError(seq) : seq \in InspectSeqs}

\* JSON.parse is modelled on the texts of these values and on integer
\* literals; any other text is a SyntaxError
JSONUniverse ==
    DebuggeeValues \cup SessionDebuggeeValues \cup InspectDebuggeeValues \cup WireValues
        \cup InspectWireValues \cup HarnessMessages \cup {JNull}
JSONCodebook == {[text |-> JSONstringify(v), value |-> v] : v \in JSONUniverse}

\* JSON.parse(text)
JSONparse(text) ==
    LET s == TrimJSON(text)
    IN  IF \E e \in JSONCodebook : e.text = s
        THEN [threw |-> FALSE, value |-> (CHOOSE e \in JSONCodebook : e.text = s).value]
        ELSE IF IsIntegerLiteral(s)
        THEN [threw |-> FALSE, value |-> JNum(IntegerLiteralValue(s))]
        ELSE [threw |-> TRUE, value |-> Undefined]

\* a frame as the debuggee writes it: the wire format of a body
DebuggeeFrame(body) ==
    BufferFrom(padStart(NumberToString(Len(body), 16), 8, 48)) \o <<10>> \o body

\* the frame that carries the JSON value v
ResponseChunk(v) == DebuggeeFrame(BufferFrom(JSONstringify(v) \o <<10>>))

\* a body that is no JSON text: "{" and a newline
BadJSONBody == <<123, 10>>
\* a header whose length field is no hexadecimal number: "zzzzzzzz"
BadHexHeader == <<122, 122, 122, 122, 122, 122, 122, 122, 10>>
\* a header whose length field starts as hexadecimal and does not stay so: "0000002g"
HalfHexHeader == <<48, 48, 48, 48, 48, 48, 50, 103, 10>>

\* frames whose header is malformed, followed by a well-formed body
BadHexFrame == BadHexHeader \o BufferFrom(JSONstringify(JNum(7)) \o <<10>>)
HalfHexFrame == HalfHexHeader \o BufferFrom(JSONstringify(JNum(7)) \o <<10>>)
MalformedFrames == {BadHexFrame, HalfHexFrame}

\* the chunks the socket delivers to the connection: whole frames
InboundChunks ==
    {DebuggeeFrame(BufferFrom(JSONstringify(v) \o <<10>>)) : v \in DebuggeeValues}
        \cup {DebuggeeFrame(BadJSONBody), BadHexFrame}

\* the chunks the socket of a session delivers: whole frames
SessionChunks ==
    {DebuggeeFrame(BufferFrom(JSONstringify(v) \o <<10>>)) : v \in SessionDebuggeeValues}

(***************************************************************************)
(* handleMessage.                                                          *)
(***************************************************************************)
\* the response branch with the reaction looked up under the wrong key: the
\* oldest pending entry instead of response.request_seq
handleResponseOldest(c, response) ==
    IF DOMAIN c.requestReactions # {}
    THEN LET key == CHOOSE x \in DOMAIN c.requestReactions :
                        \A y \in DOMAIN c.requestReactions : x <= y
             reaction == c.requestReactions[key]
             d == [c EXCEPT !.requestReactions = MapDelete(@, key)]
         IN  IF Truthy(Get(response, Str_error))
             THEN reject(d, reaction, Error(StringOf(Get(response, Str_error))))
             ELSE resolve(d, reaction, Get(response, Str_body))
    ELSE c

\* else if (json.type === 'response') { ... }
handleResponse(c, response) ==
    LET key == Get(response, Str_request_seq)
    IN  IF MapHas(c.requestReactions, key)
        THEN LET reaction == c.requestReactions[key.n]
                 d == [c EXCEPT !.requestReactions = MapDelete(@, key.n)]
             IN  IF Truthy(Get(response, Str_error))
                 THEN reject(d, reaction, Error(StringOf(Get(response, Str_error))))
                 ELSE resolve(d, reaction, Get(response, Str_body))
        ELSE c

\* a handleMessage that dispatches an event on the envelope's type, "event"
handleMessageByEnvelopeType(c, message) ==
    LET parsed == JSONparse(BufferToString(message))
        json == parsed.value
    IN  IF parsed.threw THEN Throw(c, "SyntaxError")
        ELSE IF json.t = "null" THEN Throw(c, "TypeError")
        ELSE IF Get(json, Str_type) = JStr(Str_event)
        THEN LET event == Get(json, Str_event)
             IN  IF event.t \in {"undefined", "null"} THEN Throw(c, "TypeError")
                 ELSE emit(c, Get(json, Str_type), <<event>>)
        ELSE IF Get(json, Str_type) = JStr(Str_response)
        THEN handleResponse(c, json)
        ELSE c

\* handleMessage(message)
handleMessage(c, message) ==
    LET parsed == JSONparse(BufferToString(message))
        json == parsed.value
    IN  IF parsed.threw THEN Throw(c, "SyntaxError")
        ELSE IF json.t = "null" THEN Throw(c, "TypeError")
        ELSE IF Get(json, Str_type) = JStr(Str_event)
        THEN LET event == Get(json, Str_event)
             IN  IF event.t \in {"undefined", "null"} THEN Throw(c, "TypeError")
                 ELSE emit(c, Get(event, Str_type), <<event>>)
        ELSE IF Get(json, Str_type) = JStr(Str_response)
        THEN handleResponse(c, json)
        ELSE c

\* QuickJSDebugProtocol.handleMessage(message)
protocolHandleMessage(c, message) ==
    LET parsed == JSONparse(BufferToString(message))
        json == parsed.value
    IN  IF parsed.threw THEN Throw(c, "SyntaxError")
        ELSE IF json.t = "null" THEN Throw(c, "TypeError")
        ELSE IF Get(json, Str_type) = JStr(Str_event)
        THEN LET event == Get(json, Str_event)
             IN  IF event.t \in {"undefined", "null"} THEN Throw(c, "TypeError")
                 ELSE emit(c, Get(event, Str_type), <<event>>)
        ELSE IF Get(json, Str_type) = JStr(Str_response)
        THEN LET key == Get(json, Str_request_seq)
             IN  IF MapHas(c.requestReactions, key)
                 THEN cb([c EXCEPT !.requestReactions = MapDelete(@, key.n)],
                         c.requestReactions[key.n],
                         Get(json, Str_error), Get(json, Str_body))
                 ELSE c
        ELSE c

\* the onMessage each class passes to addMessageListener
onMessage(c, message) ==
    IF c.impl = "protocol" THEN protocolHandleMessage(c, message)
    ELSE handleMessage(c, message)

RECURSIVE onMessages(_, _, _)
\* what follows the first of the onMessage calls, which left the connection as d
afterMessage(d, calls, parser) ==
    IF d.thrown # "none" THEN [conn |-> d, parser |-> Head(calls).during]
    ELSE onMessages(d, Tail(calls), parser)

\* the onMessage calls of one 'data' event, message => this.handleMessage(message).
\* A call that throws ends the listener: the closure stays as it was during
\* the call and the later calls are not made.
onMessages(c, calls, parser) ==
    IF calls = <<>> THEN [conn |-> c, parser |-> parser]
    ELSE afterMessage(onMessage(c, Head(calls).message), calls, parser)

\* the 'data' listener on a chunk: the parser's loop, then the onMessage calls
\* it made
onChunk(c, r) == onMessages(c, r.calls, ParserFields(r))

\* the state a 'data' event leaves, microtasks drained
Received(after) ==
    \E r \in {after} : SetParser(r.parser) /\ SetConn(runMicrotasks(r.conn))

(***************************************************************************)
(* The connection's operations and events.                                 *)
(***************************************************************************)
\* the application calls connection.sendRequest(command)
SendRequest(command) ==
    /\ impl = "connection"
    /\ requestSeq <= MaxRequests
    /\ SetConn(runMicrotasks(sendRequest(Conn, command, Undefined)))
    /\ lastEvent' = [kind |-> "sendRequest", seq |-> requestSeq]
    /\ UNCHANGED <<socketState, parserVars, envelopesSent, dataEvents, harnessVars>>

\* the application calls connection.sendEnvelope(type), as session.resume() does
SendEnvelope(type) ==
    /\ envelopesSent < MaxEnvelopes
    /\ SetConn(runMicrotasks(sendEnvelope(Conn, type, Undefined)))
    /\ envelopesSent' = envelopesSent + 1
    /\ lastEvent' = [kind |-> "sendEnvelope"]
    /\ UNCHANGED <<socketState, parserVars, dataEvents, harnessVars>>

\* the socket emits 'data'
SocketData(chunk) ==
    /\ socketState = "open"
    /\ dataEvents < MaxData
    /\ Received(onChunk(Conn, onData(Parser, chunk)))
    /\ dataEvents' = dataEvents + 1
    /\ lastEvent' = [kind |-> "data", chunk |-> chunk]
    /\ UNCHANGED <<socketState, envelopesSent, harnessVars>>

\* the socket emits 'end': the peer closed the stream
SocketEnd ==
    /\ impl = "connection"
    /\ socketState = "open"
    /\ SetConn(runMicrotasks(onEnd(Conn)))
    /\ socketState' = "ended"
    /\ lastEvent' = [kind |-> "end"]
    /\ UNCHANGED <<parserVars, envelopesSent, dataEvents, harnessVars>>

\* the socket emits 'error' and is destroyed; a destroyed socket emits neither
\* 'data' nor 'end'
SocketError ==
    /\ impl = "connection"
    /\ socketState \in {"open", "ended"}
    /\ SetConn(runMicrotasks(onError(Conn, Error(Str_ECONNRESET))))
    /\ socketState' = "destroyed"
    /\ lastEvent' = [kind |-> "error"]
    /\ UNCHANGED <<parserVars, envelopesSent, dataEvents, harnessVars>>

\* the timer of request p fires
Timeout(p) ==
    /\ impl = "connection"
    /\ p \in DOMAIN timers
    /\ timers[p] = "armed"
    /\ SetConn(runMicrotasks(onTimeout(Conn, p)))
    /\ lastEvent' = [kind |-> "timeout", seq |-> p]
    /\ UNCHANGED <<socketState, parserVars, envelopesSent, dataEvents, harnessVars>>

\* new QuickJSDebugConnection(socket)
Init ==
    /\ impl = "connection"
    /\ returned = EmptyMap
    /\ callbacks = EmptyMap
    /\ session = "none"
    /\ protocolVersion = JNum(Unknown)
    /\ protocolInfo = Undefined
    /\ sessionEmitted = <<>>
    /\ protocolListener = "none"
    /\ NoInspect
    /\ socketState = "open"
    /\ socketWrites = <<>>
    /\ ParserInit
    /\ requestSeq = 1
    /\ requestReactions = EmptyMap
    /\ promises = EmptyMap
    /\ futures = EmptyMap
    /\ timers = EmptyMap
    /\ emitted = <<>>
    /\ uncaught = <<>>
    /\ envelopesSent = 0
    /\ dataEvents = 0
    /\ lastEvent = [kind |-> "none"]
    /\ sentMessages = <<>>
    /\ rawWrites = 0
    /\ fed = 0
    /\ delivered = <<>>
    /\ legacy = legacyClosure
    /\ server = NoDebuggee
    /\ incoming = [s \in Sockets |-> "none"]

Next ==
    \/ \E command \in Commands : SendRequest(command)
    \/ SendEnvelope(Str_resume)
    \/ \E chunk \in InboundChunks : SocketData(chunk)
    \/ SocketEnd
    \/ SocketError
    \/ \E p \in 1..MaxRequests : Timeout(p)

Spec == Init /\ [][Next]_vars

(***************************************************************************)
(* The operations and events of QuickJSDebugProtocol.                      *)
(***************************************************************************)
\* the application calls protocol.sendRequest(command) and keeps the promise
ProtocolSendRequest(command) ==
    /\ impl = "protocol"
    /\ requestSeq <= MaxRequests
    /\ SetConn(protocolSendRequest(Conn, command, Undefined))
    /\ lastEvent' = [kind |-> "sendRequest", seq |-> requestSeq]
    /\ UNCHANGED <<socketState, parserVars, envelopesSent, dataEvents, harnessVars>>

\* the timer of request p fires
ProtocolTimeout(p) ==
    /\ impl = "protocol"
    /\ p \in DOMAIN timers
    /\ timers[p] = "armed"
    /\ SetConn(protocolOnTimeout(Conn, p))
    /\ lastEvent' = [kind |-> "timeout", seq |-> p]
    /\ UNCHANGED <<socketState, parserVars, envelopesSent, dataEvents, harnessVars>>

\* the socket emits 'end'
ProtocolSocketEnd ==
    /\ impl = "protocol"
    /\ socketState = "open"
    /\ SetConn(protocolOnEnd(Conn))
    /\ socketState' = "ended"
    /\ lastEvent' = [kind |-> "end"]
    /\ UNCHANGED <<parserVars, envelopesSent, dataEvents, harnessVars>>

\* the socket emits 'error' and is destroyed: the class has no listener for it
ProtocolSocketError ==
    /\ impl = "protocol"
    /\ socketState \in {"open", "ended"}
    /\ socketState' = "destroyed"
    /\ lastEvent' = [kind |-> "error"]
    /\ UNCHANGED <<socketWrites, parserVars, connVars, envelopesSent, dataEvents, harnessVars>>

\* the closure of lib/protocol.js's addMessageListener when it returns
ProtocolParserInit ==
    /\ chunks = <<>>
    /\ bufferLength = 0
    /\ state = "null"
    /\ triggerLength = JNum(0)

\* new QuickJSDebugProtocol(socket)
InitProtocol ==
    /\ impl = "protocol"
    /\ returned = EmptyMap
    /\ callbacks = EmptyMap
    /\ session = "none"
    /\ protocolVersion = JNum(Unknown)
    /\ protocolInfo = Undefined
    /\ sessionEmitted = <<>>
    /\ protocolListener = "none"
    /\ NoInspect
    /\ socketState = "open"
    /\ socketWrites = <<>>
    /\ ProtocolParserInit
    /\ requestSeq = 1
    /\ requestReactions = EmptyMap
    /\ promises = EmptyMap
    /\ futures = EmptyMap
    /\ timers = EmptyMap
    /\ emitted = <<>>
    /\ uncaught = <<>>
    /\ envelopesSent = 0
    /\ dataEvents = 0
    /\ lastEvent = [kind |-> "none"]
    /\ sentMessages = <<>>
    /\ rawWrites = 0
    /\ fed = 0
    /\ delivered = <<>>
    /\ legacy = legacyClosure
    /\ server = NoDebuggee
    /\ incoming = [s \in Sockets |-> "none"]

NextProtocol ==
    \/ \E command \in Commands : ProtocolSendRequest(command)
    \/ \E chunk \in InboundChunks : SocketData(chunk)
    \/ ProtocolSocketEnd
    \/ ProtocolSocketError
    \/ \E p \in 1..MaxRequests : ProtocolTimeout(p)

\* either class, with timers that fire: a timeout that stays armed is
\* eventually run by the event loop
SpecLive ==
    /\ Init \/ InitProtocol
    /\ [][Next \/ NextProtocol]_vars
    /\ \A p \in 1..MaxRequests : WF_vars(Timeout(p)) /\ WF_vars(ProtocolTimeout(p))

(***************************************************************************)
(* Either class with an application that reacts to the outcome of its      *)
(* requests: it passes a callback to QuickJSDebugProtocol.sendRequest, and *)
(* attaches a catch handler to the promise QuickJSDebugConnection's        *)
(* sendRequest returns.                                                    *)
(***************************************************************************)
CallbackKinds == {"retry", "record"}
\* the request_seq values a run can reach: each request retried once
RetrySeqs == 1..(2 * MaxRequests)
\* the debuggee answers request 1, with a body or with an error
RetryChunks == {ResponseChunk(ResponseOk(1)), ResponseChunk(ResponseError(1))}

\* the application calls connection.sendRequest('next').catch(handler)
SendRequestCatch(kind) ==
    /\ impl = "connection"
    /\ requestSeq <= MaxRequests
    /\ SetConn(runMicrotasks(sendRequestCatch(Conn, Str_next, kind)))
    /\ lastEvent' = [kind |-> "sendRequest", seq |-> requestSeq]
    /\ UNCHANGED <<socketState, parserVars, envelopesSent, dataEvents, harnessVars>>

\* the application calls protocol.sendRequest('next', undefined, callback)
ProtocolSendRequestCallback(kind) ==
    /\ impl = "protocol"
    /\ requestSeq <= MaxRequests
    /\ SetConn(protocolSendRequestCallback(Conn, Str_next, Undefined, kind))
    /\ lastEvent' = [kind |-> "sendRequest", seq |-> requestSeq]
    /\ UNCHANGED <<socketState, parserVars, envelopesSent, dataEvents, harnessVars>>

NextRetry ==
    \/ \E kind \in CallbackKinds : SendRequestCatch(kind)
    \/ \E kind \in CallbackKinds : ProtocolSendRequestCallback(kind)
    \/ \E chunk \in RetryChunks : SocketData(chunk)
    \/ SocketEnd
    \/ ProtocolSocketEnd
    \/ \E p \in RetrySeqs : Timeout(p)
    \/ \E p \in RetrySeqs : ProtocolTimeout(p)

SpecRetry == (Init \/ InitProtocol) /\ [][NextRetry]_vars

(***************************************************************************)
(* The framing harness: what sendMessage writes is looped back, in chunks  *)
(* of any size, into addMessageListener with an onMessage that records.    *)
(***************************************************************************)
Stream == BufferConcat(socketWrites)

\* sendMessage(message)
FrameMessage(message) ==
    /\ Len(sentMessages) < MaxMessages
    /\ socketWrites' = sendMessage(socketWrites, message)
    /\ sentMessages' = Append(sentMessages, message)
    /\ UNCHANGED <<socketState, parserVars, connVars, runVars, rawWrites, fed, delivered, legacy,
                 replVars>>

\* a peer writes a frame with a malformed header
WriteRaw(frame) ==
    /\ rawWrites < MaxRaw
    /\ socketWrites' = Append(socketWrites, frame)
    /\ rawWrites' = rawWrites + 1
    /\ UNCHANGED <<socketState, parserVars, connVars, runVars, sentMessages, fed, delivered, legacy,
                 replVars>>

\* the stream hands its next n bytes to the parser as one 'data' event
Feed(n) ==
    /\ n \in 1..(Len(Stream) - fed)
    /\ n <= MaxChunk \/ n = Len(Stream) - fed
    /\ LET r == onData(Parser, SubSeq(Stream, fed + 1, fed + n))
       IN  /\ SetParser(ParserFields(r))
           /\ delivered' = delivered \o [i \in DOMAIN r.calls |-> r.calls[i].message]
    /\ LET l == onData(legacy.parser, SubSeq(Stream, fed + 1, fed + n))
       IN  legacy' = [parser |-> ParserFields(l),
                      delivered |-> legacy.delivered
                                        \o [i \in DOMAIN l.calls |-> l.calls[i].message]]
    /\ fed' = fed + n
    /\ UNCHANGED <<socketVars, connVars, runVars, sentMessages, rawWrites, replVars>>

NextFraming ==
    \/ \E message \in HarnessMessages : FrameMessage(message)
    \/ \E frame \in MalformedFrames : WriteRaw(frame)
    \/ \E n \in 1..(Len(Stream) - fed) : Feed(n)

SpecFraming == Init /\ [][NextFraming]_vars

\* a header whose length field is a negative hexadecimal number: "-0000001"
NegativeHexHeader == <<45, 48, 48, 48, 48, 48, 48, 49, 10>>
NegativeHexFrame == NegativeHexHeader \o BufferFrom(JSONstringify(JNum(7)) \o <<10>>)

\* the harness with a peer that may also announce a negative length
NextAccounting ==
    \/ \E message \in HarnessMessages : FrameMessage(message)
    \/ \E frame \in MalformedFrames \cup {NegativeHexFrame} : WriteRaw(frame)
    \/ \E n \in 1..(Len(Stream) - fed) : Feed(n)

SpecAccounting == Init /\ [][NextAccounting]_vars

(***************************************************************************)
(* QuickJSDebugSession and MinecraftDebugSession: the operations of the    *)
(* C11..C19 claims.  The listeners the constructors register are with      *)
(* emit above; the StatEvent, StatEvent2 and ProfilerCapture listeners     *)
(* write nothing and keep no state the operations read.                    *)
(***************************************************************************)
\* const breakpointLines = breakpoints.map((e) => e.line)
breakpointLines(breakpoints) ==
    JArr([i \in DOMAIN breakpoints.items |-> Get(breakpoints.items[i], Str_line)])

\* const status = breakpoints.map(() => ({ verified: true }))
status(breakpoints) == JArr([i \in DOMAIN breakpoints.items |-> BreakpointStatus(TRUE)])

\* QuickJSDebugSession.setBreakpoints(fileName, breakpoints)
superSetBreakpoints(c, fileName, breakpoints) ==
    LET d == sendEnvelope(c, Str_breakpoints,
                 JObj(<<Prop(Str_breakpoints,
                     JObj(<<Prop(Str_path, fileName),
                            Prop(Str_breakpoints,
                                 IF Len(breakpoints.items) # 0 THEN breakpoints
                                 ELSE Undefined)>>))>>))
    IN  [d EXCEPT !.value = Undefined]

\* setBreakpointLines(fileName, lines): a "setBreakpoints" request
\* that resolves with the verification list of the response
setBreakpointLines(c, fileName, lines) ==
    LET d == sendRequest(c, Str_setBreakpoints,
                 JObj(<<Prop(Str_path, fileName), Prop(Str_breakpoints, lines)>>))
    IN  [d EXCEPT !.value = [t |-> "promise", seq |-> d.value.n]]

\* a setBreakpoints that sends the envelope of the base class whatever the version
setBreakpointsAlsoEnvelope(c, fileName, breakpoints) ==
    IF VersionAtLeast(c.protocolVersion, SupportBreakpointsAsRequest)
    THEN setBreakpointLines(superSetBreakpoints(c, fileName, breakpoints), fileName,
             breakpointLines(breakpoints))
    ELSE LET d == superSetBreakpoints(c, fileName, breakpoints)
         IN  [d EXCEPT !.value =
                  status(breakpoints)]

\* MinecraftDebugSession.setBreakpoints(fileName, breakpoints)
setBreakpoints(c, fileName, breakpoints) ==
    IF VersionAtLeast(c.protocolVersion, SupportBreakpointsAsRequest)
    THEN setBreakpointLines(c, fileName,
             breakpointLines(breakpoints))
    ELSE LET d == superSetBreakpoints(c, fileName, breakpoints)
         IN  [d EXCEPT !.value =
                  status(breakpoints)]

\* targetModuleUuid ?? this.protocolInfo?.targetModuleUuid
argTargetModuleUuid(c, targetModuleUuid) ==
    Nullish(targetModuleUuid,
            IF c.protocolInfo.t \in {"undefined", "null"} THEN Undefined
            ELSE Get(c.protocolInfo, Str_targetModuleUuid))

\* a sendStartProfiler without the version check
sendStartProfilerUnchecked(c, targetModuleUuid) ==
    IF ~Truthy(argTargetModuleUuid(c, targetModuleUuid))
    THEN ThrowError(c, Str_ExpectTargetModuleUuid)
    ELSE sendEnvelope(c, Str_startProfiler,
             JObj(<<Prop(Str_profiler,
                 JObj(<<Prop(Str_target_module_uuid,
                             argTargetModuleUuid(c, targetModuleUuid))>>))>>))

\* sendStartProfiler(targetModuleUuid)
sendStartProfiler(c, targetModuleUuid) ==
    IF VersionBelow(c.protocolVersion, SupportProfilerCaptures)
    THEN ThrowError(c, Str_ClientNotSupported)
    ELSE IF ~Truthy(argTargetModuleUuid(c, targetModuleUuid))
    THEN ThrowError(c, Str_ExpectTargetModuleUuid)
    ELSE sendEnvelope(c, Str_startProfiler,
             JObj(<<Prop(Str_profiler,
                 JObj(<<Prop(Str_target_module_uuid,
                             argTargetModuleUuid(c, targetModuleUuid))>>))>>))

\* sendStopProfiler(capturesPath, targetModuleUuid)
sendStopProfiler(c, capturesPath, targetModuleUuid) ==
    IF VersionBelow(c.protocolVersion, SupportProfilerCaptures)
    THEN ThrowError(c, Str_ClientNotSupported)
    ELSE IF ~Truthy(argTargetModuleUuid(c, targetModuleUuid))
    THEN ThrowError(c, Str_ExpectTargetModuleUuid)
    ELSE sendEnvelope(c, Str_stopProfiler,
             JObj(<<Prop(Str_profiler,
                 JObj(<<Prop(Str_captures_path, capturesPath),
                        Prop(Str_target_module_uuid,
                             argTargetModuleUuid(c, targetModuleUuid))>>))>>))

(***************************************************************************)
(* A session on a connection: the application's calls and the socket's     *)
(* events.                                                                 *)
(***************************************************************************)
\* the ProtocolInfo values of the explored runs
InfoFull ==
    JObj(<<Prop(Str_version, JNum(5)), Prop(Str_targetModuleUuid, JStr(Str_U)),
           Prop(Str_passcode, JStr(Str_P))>>)
InfoBare == JObj(<<Prop(Str_version, JNum(4))>>)

BreakpointInfo(line) == JObj(<<Prop(Str_line, JNum(line))>>)
\* the breakpoint lists passed to setBreakpoints
BreakpointLists == {JArr(<<>>), JArr(<<BreakpointInfo(10), BreakpointInfo(20)>>)}
\* the optional string arguments passed to the operations
DimensionTypes == {Undefined, JStr(Str_nether)}
TargetModuleUuids == {Undefined, JStr(Str_U)}

\* resume()
resume(c) == sendEnvelope(c, Str_resume, Undefined)

\* setStopOnException(enabled)
setStopOnException(c, enabled) ==
    sendEnvelope(c, Str_stopOnException,
                 JObj(<<Prop(Str_stopOnException, JBool(enabled))>>))

\* what a call handed back to the application: its value, or the error it threw
Outcome(c) == [threw |-> c.thrown # "none", value |-> c.value]

\* the state a call leaves; its exception goes to the caller
SetCalled(c) == SetConn(runMicrotasks([c EXCEPT !.thrown = "none"]))

\* the application calls an operation of the MinecraftDebugSession
Called(kind, args, c) ==
    /\ session = "minecraft"
    /\ envelopesSent < MaxCalls
    /\ SetCalled(c)
    /\ envelopesSent' = envelopesSent + 1
    /\ lastEvent' = [kind |-> kind, args |-> args, outcome |-> Outcome(c)]
    /\ UNCHANGED <<socketState, parserVars, dataEvents, harnessVars>>

SetProtocolInfo(info) ==
    Called("setProtocolInfo", <<info>>, setProtocolInfo(Conn, info))

SetBreakpoints(fileName, breakpoints) ==
    /\ requestSeq <= MaxRequests
    /\ Called("setBreakpoints", <<fileName, breakpoints>>,
              setBreakpoints(Conn, fileName, breakpoints))

SendMinecraftCommand(command, dimensionType) ==
    Called("sendMinecraftCommand", <<command, dimensionType>>,
           sendMinecraftCommand(Conn, command, dimensionType))

SendStartProfiler(targetModuleUuid) ==
    Called("sendStartProfiler", <<targetModuleUuid>>,
           sendStartProfiler(Conn, targetModuleUuid))

SendStopProfiler(capturesPath, targetModuleUuid) ==
    Called("sendStopProfiler", <<capturesPath, targetModuleUuid>>,
           sendStopProfiler(Conn, capturesPath, targetModuleUuid))

Resume == Called("resume", <<>>, resume(Conn))

SetStopOnException(enabled) ==
    Called("setStopOnException", <<enabled>>, setStopOnException(Conn, enabled))

\* new QuickJSDebugSession(connection), new MinecraftDebugSession(connection) and
\* new MinecraftDebugSession(connection, protocolInfo) on a new connection
InitSessionWith(registered) ==
    /\ impl = "connection"
    /\ returned = EmptyMap
    /\ callbacks = EmptyMap
    /\ \/ session = "session" /\ protocolInfo = Undefined
       \/ session = "minecraft" /\ protocolInfo \in {Undefined, InfoBare}
    /\ protocolVersion = JNum(Unknown)
    /\ sessionEmitted = <<>>
    /\ protocolListener \in registered
    /\ NoInspect
    /\ socketState = "open"
    /\ socketWrites = <<>>
    /\ ParserInit
    /\ requestSeq = 1
    /\ requestReactions = EmptyMap
    /\ promises = EmptyMap
    /\ futures = EmptyMap
    /\ timers = EmptyMap
    /\ emitted = <<>>
    /\ uncaught = <<>>
    /\ envelopesSent = 0
    /\ dataEvents = 0
    /\ lastEvent = [kind |-> "none"]
    /\ sentMessages = <<>>
    /\ rawWrites = 0
    /\ fed = 0
    /\ delivered = <<>>
    /\ legacy = legacyClosure
    /\ server = NoDebuggee
    /\ incoming = [s \in Sockets |-> "none"]

InitSession == InitSessionWith({"none"})

NextSession ==
    \/ SetProtocolInfo(InfoFull)
    \/ \E breakpoints \in BreakpointLists : SetBreakpoints(JStr(Str_mainjs), breakpoints)
    \/ \E dimensionType \in DimensionTypes :
           SendMinecraftCommand(JStr(Str_say), dimensionType)
    \/ \E targetModuleUuid \in TargetModuleUuids : SendStartProfiler(targetModuleUuid)
    \/ SendStopProfiler(JStr(Str_caps), Undefined)
    \/ \E chunk \in SessionChunks : SocketData(chunk)
    \/ SocketEnd

SpecSession == InitSession /\ [][NextSession]_vars

\* the frames the debuggee of that session sends: the ProtocolEvent of a
\* version below and of one at SupportBreakpointsAsRequest
EnvelopeChunks ==
    {DebuggeeFrame(BufferFrom(JSONstringify(EventEnvelopeOf(ProtocolEventOf(version))) \o <<10>>)) :
        version \in {SupportProfilerCaptures, SupportBreakpointsAsRequest}}

\* a MinecraftDebugSession with its protocol information set or not
InitEnvelopes == InitSession /\ session = "minecraft"

\* the session's operations that write without asking for a response, next
\* to one request that is pending
NextEnvelopes ==
    \/ Resume
    \/ SetStopOnException(TRUE)
    \/ SetBreakpoints(JStr(Str_mainjs), JArr(<<BreakpointInfo(10), BreakpointInfo(20)>>))
    \/ SendMinecraftCommand(JStr(Str_say), Undefined)
    \/ SendStartProfiler(JStr(Str_U))
    \/ SendStopProfiler(JStr(Str_caps), JStr(Str_U))
    \/ requestSeq = 1 /\ SendRequest(Str_next)
    \/ \E chunk \in EnvelopeChunks : SocketData(chunk)

SpecEnvelopes == InitEnvelopes /\ [][NextEnvelopes]_vars

\* the frame of the ProtocolEvent of each version
ProtocolChunkOf ==
    [version \in Versions |->
        DebuggeeFrame(BufferFrom(JSONstringify(EventEnvelopeOf(ProtocolEventOf(version)))
                                     \o <<10>>))]

\* a MinecraftDebugSession whose application listens to its 'protocol' event
InitListening ==
    InitSessionWith({"setProtocolInfo", "sendMinecraftCommand"}) /\ session = "minecraft"

NextListening ==
    \/ \E version \in Versions : SocketData(ProtocolChunkOf[version])
    \/ SetProtocolInfo(InfoBare)
    \/ SendMinecraftCommand(JStr(Str_say), Undefined)

SpecListening == InitListening /\ [][NextListening]_vars

(***************************************************************************)
(* The REPL's server, the debuggees that connect to it and the user's      *)
(* .disconnect command.                                                    *)
(***************************************************************************)
Repl == [server |-> server, incoming |-> incoming]

SetRepl(r) ==
    /\ server' = r.server
    /\ incoming' = r.incoming
    /\ UNCHANGED <<socketVars, parserVars, connVars, runVars,
                   sentMessages, rawWrites, fed, delivered, legacy>>

\* the net.Server hands the server a new socket
Connection(s) ==
    /\ incoming[s] = "none"
    /\ SetRepl(onConnection(Repl, s))

\* the user types .disconnect, or the REPL exits
Disconnect == SetRepl(reset(Repl))

\* the debuggee behind an accepted socket sends the terminated event
SessionTerminated(s) ==
    /\ incoming[s] \in {"open", "closing"}
    /\ SetRepl(serverOnSessionEnd(Repl))

\* a socket emits 'end': the connection made on an accepted socket emits end
ServerSocketEnd(s) ==
    /\ incoming[s] \in {"open", "closing", "refused"}
    /\ LET r == [Repl EXCEPT !.incoming[s] = "ended"]
       IN  SetRepl(IF incoming[s] = "refused" THEN r ELSE serverOnConnectionEnd(r))

NextRepl ==
    \/ \E s \in Sockets : Connection(s)
    \/ Disconnect
    \/ \E s \in Sockets : SessionTerminated(s)
    \/ \E s \in Sockets : ServerSocketEnd(s)

SpecRepl == Init /\ [][NextRepl]_vars

(***************************************************************************)
(* One inspect call on a handle of a session, and its debuggee.            *)
(***************************************************************************)
\* the application calls handle.inspect({ maxDepth })
Inspect(handle, maxDepth) ==
    /\ inspected = NotCalled
    /\ SetConn(runMicrotasks(inspect(Conn, handle, maxDepth, FALSE)))
    /\ lastEvent' = [kind |-> "inspect", handle |-> handle, maxDepth |-> maxDepth]
    /\ UNCHANGED <<socketState, parserVars, envelopesSent, dataEvents, harnessVars>>

\* the request the debuggee reads from the p-th packet written
RequestRead(p) == Get(JSONparse(BufferToString(PacketBody(socketWrites[p]))).value, Str_request)

\* the frame of each response the debuggee can send
VariablesChunkOf ==
    [seq \in InspectSeqs |->
        [g \in Graphs \cup {LadderGraph} |->
            [ref \in DOMAIN g |->
                DebuggeeFrame(BufferFrom(JSONstringify(VariablesResponse(seq, g[ref]))
                                         \o <<10>>))]]]

\* the debuggee answers a variables request it has read with the properties
\* of the object, and the socket delivers the response in one 'data' event
Respond(p) ==
    /\ socketState = "open"
    /\ p \in DOMAIN socketWrites
    /\ p \notin answered
    /\ LET request == RequestRead(p)
           seq == Get(request, Str_request_seq).n
           ref == Get(Get(request, Str_args), Str_variablesReference).n
       IN  /\ Get(request, Str_command) = JStr(Str_variables)
           /\ seq \in InspectSeqs
           /\ ref \in DOMAIN graph
           /\ Received(onChunk([Conn EXCEPT !.answered = @ \cup {p}],
                               onData(Parser, VariablesChunkOf[seq][graph][ref])))
           /\ lastEvent' = [kind |-> "data", chunk |-> VariablesChunkOf[seq][graph][ref]]
    /\ UNCHANGED <<socketState, envelopesSent, dataEvents, harnessVars>>

\* the frame of the error the debuggee can send for a request
ErrorChunkOf ==
    [seq \in InspectSeqs |->
        DebuggeeFrame(BufferFrom(JSONstringify(ResponseError(seq)) \o <<10>>))]

\* the debuggee rejects a variables request it has read
RespondError(p) ==
    /\ socketState = "open"
    /\ p \in DOMAIN socketWrites
    /\ p \notin answered
    /\ LET seq == Get(RequestRead(p), Str_request_seq).n
       IN  /\ seq \in InspectSeqs
           /\ Received(onChunk([Conn EXCEPT !.answered = @ \cup {p}],
                               onData(Parser, ErrorChunkOf[seq])))
           /\ lastEvent' = [kind |-> "data", chunk |-> ErrorChunkOf[seq]]
    /\ UNCHANGED <<socketState, envelopesSent, dataEvents, harnessVars>>

\* a session on a new connection, a handle to the object with ref 1 of a
\* debuggee that holds one of the graphs, and no inspect call yet
InitInspectOn(graphs) ==
    /\ impl = "connection"
    /\ returned = EmptyMap
    /\ callbacks = EmptyMap
    /\ session = "session"
    /\ protocolVersion = JNum(Unknown)
    /\ protocolInfo = Undefined
    /\ sessionEmitted = <<>>
    /\ protocolListener = "none"
    /\ inspected = NotCalled
    /\ inspectProto = FALSE
    /\ referenceMap = EmptyMap
    /\ heap = <<>>
    /\ tasks = EmptyMap
    /\ graph \in graphs
    /\ answered = {}
    /\ socketState = "open"
    /\ socketWrites = <<>>
    /\ ParserInit
    /\ requestSeq = 1
    /\ requestReactions = EmptyMap
    /\ promises = EmptyMap
    /\ futures = EmptyMap
    /\ timers = EmptyMap
    /\ emitted = <<>>
    /\ uncaught = <<>>
    /\ envelopesSent = 0
    /\ dataEvents = 0
    /\ lastEvent = [kind |-> "none"]
    /\ sentMessages = <<>>
    /\ rawWrites = 0
    /\ fed = 0
    /\ delivered = <<>>
    /\ legacy = legacyClosure
    /\ server = NoDebuggee
    /\ incoming = [s \in Sockets |-> "none"]

InitInspect == InitInspectOn(Graphs)

NextInspect ==
    \/ \E handle \in Handles, maxDepth \in MaxDepths : Inspect(handle, maxDepth)
    \/ \E p \in InspectSeqs : Respond(p)
    \/ \E p \in InspectSeqs : RespondError(p)
    \/ \E p \in InspectSeqs : Timeout(p)
    \/ SocketEnd

\* timers fire: a request the debuggee leaves unanswered is rejected by its timeout
SpecInspect ==
    InitInspect /\ [][NextInspect]_vars /\ \A p \in InspectSeqs : WF_vars(Timeout(p))

\* one inspect call on the graph with a short and a long path to one object,
\* with the maxDepth that cuts the long path among the options
InitLadder == InitInspectOn({LadderGraph})

NextLadder ==
    \/ \E maxDepth \in MaxDepths \cup {JNum(3)} : Inspect(RootHandle, maxDepth)
    \/ \E p \in InspectSeqs : Respond(p)
    \/ \E p \in InspectSeqs : RespondError(p)
    \/ \E p \in InspectSeqs : Timeout(p)
    \/ SocketEnd

SpecLadder == InitLadder /\ [][NextLadder]_vars

(***************************************************************************)
(* The QuickJSVariable constructor on the VariableInfo records of the      *)
(* wire, and on the body of an evaluate response.                          *)
(***************************************************************************)
\* the types of the wire, one the constructor does not know, and none
InfoTypes ==
    {JStr(Str_string), JStr(Str_integer), JStr(Str_float), JStr(Str_boolean),
     JStr(Str_null), JStr(Str_undefined), JStr(Str_object), JStr(Str_function),
     JStr(Str_symbol), Undefined}
InfoValues ==
    {Str_two, Str_minus12, Str_12px, Str_true, Str_false, Str_eighth, Str_hi, <<>>}
InfoIndexedVariables == {Undefined, JNum(0), JNum(5)}
InfoReferences == {0, 7}

\* a VariableInfo; a field that is undefined is absent from the JSON text
VariableInfoOf(type, value, ref, indexedVariables) ==
    JObj(<<Prop(Str_name, JStr(Str_x)), Prop(Str_value, JStr(value))>>
         \o (IF type = Undefined THEN <<>> ELSE <<Prop(Str_type, type)>>)
         \o <<Prop(Str_variablesReference, JNum(ref))>>
         \o (IF indexedVariables = Undefined THEN <<>>
             ELSE <<Prop(Str_indexedVariables, indexedVariables)>>))

VariableInfos ==
    {VariableInfoOf(type, value, ref, indexedVariables) :
        type \in InfoTypes, value \in InfoValues, ref \in InfoReferences,
        indexedVariables \in InfoIndexedVariables}

\* the body of the response to evaluate("1+1"), and bodies of other types
EvaluateBodyOf(type, result) ==
    JObj(<<Prop(Str_result, JStr(result)), Prop(Str_type, type),
           Prop(Str_variablesReference, JNum(0))>>)
EvaluateBodies ==
    {EvaluateBodyOf(type, result) : type \in InfoTypes \ {Undefined}, result \in InfoValues}

\* res.map((e) => new QuickJSVariable(this, e)), for one element
NewVariable ==
    /\ lastEvent.kind = "VariableInfo"
    /\ lastEvent' = [kind |-> "variable", info |-> lastEvent.info,
                     variable |-> Variable(lastEvent.info)]
    /\ UNCHANGED <<socketVars, parserVars, connVars, envelopesSent, dataEvents, harnessVars>>

\* the evaluate call returns its Variable
EvaluateResult ==
    /\ lastEvent.kind = "EvaluateResponse"
    /\ lastEvent' = [kind |-> "evaluate", body |-> lastEvent.body,
                     variable |-> evaluateResult(lastEvent.body)]
    /\ UNCHANGED <<socketVars, parserVars, connVars, envelopesSent, dataEvents, harnessVars>>

\* a session that received a VariableInfo, or the body of an evaluate response
InitVariable ==
    /\ impl = "connection"
    /\ returned = EmptyMap
    /\ callbacks = EmptyMap
    /\ session = "session"
    /\ protocolInfo = Undefined
    /\ protocolVersion = JNum(Unknown)
    /\ sessionEmitted = <<>>
    /\ protocolListener = "none"
    /\ NoInspect
    /\ socketState = "open"
    /\ socketWrites = <<>>
    /\ ParserInit
    /\ requestSeq = 1
    /\ requestReactions = EmptyMap
    /\ promises = EmptyMap
    /\ futures = EmptyMap
    /\ timers = EmptyMap
    /\ emitted = <<>>
    /\ uncaught = <<>>
    /\ envelopesSent = 0
    /\ dataEvents = 0
    /\ \/ \E info \in VariableInfos : lastEvent = [kind |-> "VariableInfo", info |-> info]
       \/ \E body \in EvaluateBodies : lastEvent = [kind |-> "EvaluateResponse", body |-> body]
    /\ sentMessages = <<>>
    /\ rawWrites = 0
    /\ fed = 0
    /\ delivered = <<>>
    /\ legacy = legacyClosure
    /\ server = NoDebuggee
    /\ incoming = [s \in Sockets |-> "none"]

NextVariable == NewVariable \/ EvaluateResult

SpecVariable == InitVariable /\ [][NextVariable]_vars

(***************************************************************************)
(* What the properties below read off the state.                           *)
(***************************************************************************)

\* the messages the debuggee decodes from the packets written
WireMessages ==
    [i \in DOMAIN socketWrites |->
        JSONparse(BufferToString(PacketBody(socketWrites[i]))).value]

IsRequestMessage(m) == Get(m, Str_type) = JStr(Str_request)

\* the request_seq values on the wire, in the order written
WireRequestSeqs ==
    LET requests == SelectSeq(WireMessages, IsRequestMessage)
    IN  [i \in DOMAIN requests |-> Get(Get(requests[i], Str_request), Str_request_seq)]

Requests == DOMAIN futures
ProtocolClosed == Error(Str_ProtocolIsClosed)
TimeoutError == Error(Str_RequestTimeout \o NumberToString(10000, 10) \o Str_MsExceed)
EndSignal == [channel |-> JStr(Str_end), args |-> <<>>]
\* the chunk that carries each response of the debuggee
ResponseChunkOf == [v \in Responses |-> ResponseChunk(v)]

\* the parser stands at a frame boundary with nothing buffered
AtFrameBoundary == state = "length" /\ chunks = <<>> /\ bufferLength = 0

\* request p is untouched by a step: its promise, its entry and its timer
Untouched(p) ==
    /\ futures'[p] = futures[p]
    /\ promises'[p] = promises[p]
    /\ timers'[p] = timers[p]
    /\ (p \in DOMAIN requestReactions') = (p \in DOMAIN requestReactions)

\* a settled future never changes again
SettledStays == \A p \in Requests : futures[p] # Pending => futures'[p] = futures[p]

(***************************************************************************)
(* C1.  The request_seq values written to the wire by N sendRequest calls  *)
(* are exactly 1, 2, ..., N in call order, whatever responses, timeouts,   *)
(* stream events and fire-and-forget envelopes come in between.            *)
(***************************************************************************)
C1_RequestSeqsAreOneToN ==
    WireRequestSeqs = [i \in 1..Cardinality(Requests) |-> JNum(i)]

\* two requests and an envelope are on the wire, a response was handled and a
\* timer has fired
C1_Witness ==
    /\ Cardinality(Requests) = 2
    /\ envelopesSent = 1
    /\ \E p \in Requests : futures[p] = Fulfilled(BodyOf(p))
    /\ \E p \in Requests : timers[p] = "fired"

(***************************************************************************)
(* C2.  Correlation is by request_seq only.  Every future settled by a     *)
(* response holds the outcome of the response bearing its own request_seq  *)
(* (the debuggee's body or error for that request): a response frame that  *)
(* reaches the parser at a frame boundary settles the pending request of   *)
(* its request_seq with its outcome, and leaves every other request        *)
(* untouched.                                                              *)
(***************************************************************************)
C2_OwnOutcome ==
    \A p \in Requests :
        futures[p] \in {Pending, Fulfilled(BodyOf(p)), Rejected(Error(ErrorOf(p).s)),
                        Rejected(TimeoutError), Rejected(ProtocolClosed)}

C2_ResponseStep ==
    \A seq \in 1..MaxRequests : \A v \in {ResponseOk(seq), ResponseError(seq)} :
        lastEvent' = [kind |-> "data", chunk |-> ResponseChunkOf[v]] =>
            /\ \A p \in Requests \ {seq} : Untouched(p)
            /\ (AtFrameBoundary /\ seq \in Requests /\ futures[seq] = Pending) =>
                   futures'[seq] = IF v = ResponseOk(seq) THEN Fulfilled(BodyOf(seq))
                                   ELSE Rejected(Error(ErrorOf(seq).s))

C2_CorrelationBySeq == []C2_OwnOutcome /\ [][C2_ResponseStep]_vars

\* the response to the second request arrived first: it is settled while the
\* first is still outstanding
C2_Witness ==
    /\ Requests = {1, 2}
    /\ futures[2] = Fulfilled(BodyOf(2))
    /\ lastEvent = [kind |-> "data", chunk |-> ResponseChunk(ResponseOk(2))]
    /\ futures[1] = Pending
    /\ 1 \in DOMAIN requestReactions

(***************************************************************************)
(* C3.  A request whose response has not arrived is rejected with the      *)
(* timeout error when its timer fires; the timeout emits nothing, does not *)
(* end the connection and leaves every other request's promise, entry and  *)
(* timer unchanged; a matching response that arrives after the timeout     *)
(* finds no entry and is dropped without error.                            *)
(***************************************************************************)
C3_TimeoutStep ==
    \A p \in 1..MaxRequests :
        lastEvent' = [kind |-> "timeout", seq |-> p] =>
            /\ futures[p] = Pending
            /\ futures'[p] = Rejected(TimeoutError)
            /\ p \notin DOMAIN requestReactions'
            /\ emitted' = emitted
            /\ socketState' = socketState
            /\ uncaught' = uncaught
            /\ \A q \in Requests \ {p} : Untouched(q)

C3_LateResponseStep ==
    \A p \in Requests : \A v \in {ResponseOk(p), ResponseError(p)} :
        (/\ futures[p] = Rejected(TimeoutError)
         /\ AtFrameBoundary
         /\ lastEvent' = [kind |-> "data", chunk |-> ResponseChunkOf[v]]) =>
            /\ p \notin DOMAIN requestReactions
            /\ UNCHANGED <<connVars, socketVars>>
            /\ AtFrameBoundary'

C3_TimeoutRejectsOnlyItsRequest == [][C3_TimeoutStep /\ C3_LateResponseStep]_vars

\* the first request timed out, its response then arrived and was dropped,
\* and the second request is still pending with its timer armed
C3_Witness ==
    /\ Requests = {1, 2}
    /\ futures[1] = Rejected(TimeoutError)
    /\ lastEvent = [kind |-> "data", chunk |-> ResponseChunk(ResponseOk(1))]
    /\ futures[2] = Pending
    /\ timers[2] = "armed"
    /\ 2 \in DOMAIN requestReactions
    /\ socketState = "open"
    /\ uncaught = <<>>

(***************************************************************************)
(* C4.  When the stream ends while K requests are pending, each of the K   *)
(* futures is rejected with 'Protocol is closed', no settled future        *)
(* changes, the pending map is empty afterwards and the end signal is      *)
(* emitted once.                                                           *)
(***************************************************************************)
C4_EndStep ==
    lastEvent'.kind = "end" =>
        /\ \A p \in Requests : futures[p] = Pending => futures'[p] = Rejected(ProtocolClosed)
        /\ requestReactions' = EmptyMap
        /\ emitted' = Append(emitted, EndSignal)

C4_EndSignalOnce == Cardinality({i \in DOMAIN emitted : emitted[i] = EndSignal}) <= 1

C4_StreamEndRejectsPending == []C4_EndSignalOnce /\ [][C4_EndStep /\ SettledStays]_vars

\* the stream ended with two requests pending
C4_Witness ==
    /\ lastEvent.kind = "end"
    /\ Requests = {1, 2}
    /\ \A p \in Requests : futures[p] = Rejected(ProtocolClosed)
    /\ requestReactions = EmptyMap

(***************************************************************************)
(* C5.  Provided timers fire, every future returned by sendRequest         *)
(* eventually settles, and it settles once: whichever of a response, a     *)
(* duplicate response, the timer and the stream end comes first decides    *)
(* the outcome, and nothing changes it afterwards.                         *)
(***************************************************************************)
C5_Issued(p) == p \in Requests

C5_Settled(p) == p \in Requests /\ futures[p] # Pending

C5_SettlesOnceEventually ==
    /\ \A p \in 1..MaxRequests : C5_Issued(p) ~> C5_Settled(p)
    /\ [][SettledStays]_vars

\* a second response with the same request_seq and another outcome arrived
\* after the first had settled the future
C5_Witness ==
    /\ 1 \in Requests
    /\ futures[1] = Fulfilled(BodyOf(1))
    /\ lastEvent = [kind |-> "data", chunk |-> ResponseChunk(ResponseError(1))]
    /\ uncaught = <<>>

(***************************************************************************)
(* C6.  The documented behaviour: when the socket reports an error, the    *)
(* connection emits error and every request pending at that moment is      *)
(* rejected with 'Protocol is closed'.                                     *)
(***************************************************************************)
C6_ErrorStep ==
    lastEvent'.kind = "error" =>
        /\ Len(emitted') = Len(emitted) + 1
        /\ emitted'[Len(emitted')].channel = JStr(Str_error)
        /\ \A p \in Requests : futures[p] = Pending => futures'[p] = Rejected(ProtocolClosed)

C6_TransportErrorTearsDown == [][C6_ErrorStep]_vars

(***************************************************************************)
(* C7.  Framing round trip.  When the stream holds only what sendMessage   *)
(* wrote, then whatever the sizes of the chunks it is fed in, the parser   *)
(* has delivered exactly the bodies of the packets it has been given in    *)
(* full, in order and once each; each delivered body decodes to the        *)
(* message that was sent; the byte counter equals the bytes buffered; and  *)
(* once the whole stream is fed nothing is left over.                      *)
(***************************************************************************)
RECURSIVE C7_WholePackets(_, _)
\* the number of leading packets that lie within the first n bytes
C7_WholePackets(packets, n) ==
    IF packets = <<>> \/ Len(Head(packets)) > n THEN 0
    ELSE 1 + C7_WholePackets(Tail(packets), n - Len(Head(packets)))

C7_FramingRoundTrip ==
    rawWrites = 0 =>
        LET k == C7_WholePackets(socketWrites, fed)
        IN  /\ Len(delivered) = k
            /\ \A i \in 1..k :
                   /\ delivered[i] = PacketBody(socketWrites[i])
                   /\ JSONparse(BufferToString(delivered[i])) =
                          [threw |-> FALSE, value |-> sentMessages[i]]
            /\ bufferLength = Len(chunks)
            /\ fed = Len(Stream) => (k = Len(sentMessages) /\ AtFrameBoundary)

\* the first of two messages has been delivered and a chunk has ended inside
\* the body of the second, which holds a two-byte character
C7_Witness ==
    /\ rawWrites = 0
    /\ Len(sentMessages) = 2
    /\ sentMessages[2] = JStr(<<233>>)
    /\ Len(delivered) = 1
    /\ state = "content"
    /\ bufferLength > 0

(***************************************************************************)
(* C8.  Every packet sendMessage writes is a 9-byte header followed by the *)
(* body: 8 lowercase hexadecimal digits, left-padded with '0', whose value *)
(* is the byte length of the body, then a newline; the body is the UTF-8   *)
(* JSON text of the message followed by a newline, which the length        *)
(* counts.                                                                 *)
(***************************************************************************)
C8_IsLowerHex(b) == b \in 48..57 \/ b \in 97..102

RECURSIVE C8_HexNumber(_, _)
C8_HexNumber(digits, acc) ==
    IF digits = <<>> THEN acc
    ELSE C8_HexNumber(Tail(digits),
                      acc * 16 + (IF Head(digits) <= 57 THEN Head(digits) - 48
                                  ELSE Head(digits) - 87))

C8_PacketFormat ==
    rawWrites = 0 =>
        /\ Len(socketWrites) = Len(sentMessages)
        /\ \A i \in DOMAIN socketWrites :
               LET packet == socketWrites[i]
                   body == BufferFrom(JSONstringify(sentMessages[i])) \o <<10>>
               IN  /\ Len(packet) = 9 + Len(body)
                   /\ \A j \in 1..8 : C8_IsLowerHex(packet[j])
                   /\ C8_HexNumber(SubSeq(packet, 1, 8), 0) = Len(body)
                   /\ packet[9] = 10
                   /\ SubSeq(packet, 10, Len(packet)) = body
                   /\ packet[Len(packet)] = 10

\* a message whose byte length differs from its character count and one
\* whose length needs a hexadecimal letter have been written
C8_Witness ==
    /\ rawWrites = 0
    /\ sentMessages = <<JStr(<<233>>), JStr(<<97, 97, 97, 97, 97, 97, 97, 97>>)>>
    /\ Len(socketWrites) = 2
    /\ socketWrites[2][8] = 98

(***************************************************************************)
(* C9.  The documented behaviour: a frame header whose 8 length characters *)
(* are not valid hexadecimal is a fatal framing error: when it is read, an *)
(* error is emitted on the connection and the pending requests are         *)
(* rejected.                                                               *)
(***************************************************************************)
C9_BadHeaderStep ==
    (AtFrameBoundary /\ lastEvent' = [kind |-> "data", chunk |-> BadHexFrame]) =>
        /\ Len(emitted') = Len(emitted) + 1
        /\ emitted'[Len(emitted')].channel = JStr(Str_error)
        /\ \A p \in Requests : futures[p] = Pending => futures'[p] = Rejected(ProtocolClosed)

C9_MalformedHexIsFatal == [][C9_BadHeaderStep]_vars

(***************************************************************************)
(* C10.  The documented behaviour: a complete frame body that is not valid *)
(* JSON is a connection-level failure: it is emitted on the error channel  *)
(* and all pending futures are rejected with 'Protocol is closed'.         *)
(***************************************************************************)
C10_BadBodyStep ==
    (AtFrameBoundary /\ lastEvent' = [kind |-> "data", chunk |-> DebuggeeFrame(BadJSONBody)]) =>
        /\ Len(emitted') = Len(emitted) + 1
        /\ emitted'[Len(emitted')].channel = JStr(Str_error)
        /\ \A p \in Requests : futures[p] = Pending => futures'[p] = Rejected(ProtocolClosed)

C10_DecodeErrorIsFatal == [][C10_BadBodyStep]_vars

(***************************************************************************)
(* C11.  Every inbound envelope of type "event" is emitted on the channel  *)
(* named by its inner event.type with the whole event object as the only   *)
(* argument; the emissions are appended in the order the envelopes arrive, *)
(* so listeners see the events in wire order; an inbound envelope whose    *)
(* type is neither "event" nor "response" changes nothing of the           *)
(* connection and emits nothing.                                           *)
(***************************************************************************)
\* the frame of each event envelope, and of the envelope of another type
C11_EventChunkOf == [type \in EventTypes |-> ResponseChunk(EventEnvelope(type))]
C11_OtherChunk == ResponseChunk(OtherEnvelope)

C11_EventStep ==
    \A type \in EventTypes :
        (AtFrameBoundary /\ lastEvent' = [kind |-> "data", chunk |-> C11_EventChunkOf[type]])
            => /\ emitted' = Append(emitted, [channel |-> JStr(type), args |-> <<EventOf(type)>>])
               /\ UNCHANGED <<requestSeq, requestReactions, promises, futures, timers, uncaught,
                              socketVars>>

C11_OtherStep ==
    (AtFrameBoundary /\ lastEvent' = [kind |-> "data", chunk |-> C11_OtherChunk])
        => UNCHANGED <<connVars, socketVars>>

C11_EventsDispatchedInOrder == [][C11_EventStep /\ C11_OtherStep]_vars

\* two events were received, StoppedEvent and then end, and emitted in that order
C11_Witness ==
    /\ lastEvent = [kind |-> "data", chunk |-> C11_EventChunkOf[Str_end]]
    /\ emitted = <<[channel |-> JStr(Str_StoppedEvent), args |-> <<EventOf(Str_StoppedEvent)>>],
                   [channel |-> JStr(Str_end), args |-> <<EventOf(Str_end)>>]>>

(***************************************************************************)
(* Helpers of the session claims: the text an envelope starts with on the  *)
(* wire, and the steps of a session.                                       *)
(***************************************************************************)
\* {"version":V,"type":"T" : JSON.stringify writes the keys in insertion order
EnvelopeHead(version, type) ==
    <<123>> \o Quote(Str_version) \o <<58>> \o NumberToString(version, 10)
        \o <<44>> \o Quote(Str_type) \o <<58>> \o Quote(type)

HasHead(packet, head) ==
    /\ Len(PacketBody(packet)) >= Len(head)
    /\ SubSeq(PacketBody(packet), 1, Len(head)) = head

\* the packets a step wrote
NewWrites == (Len(socketWrites) + 1)..Len(socketWrites')

ProtocolEventChunkOf ==
    [version \in Versions |-> ResponseChunk(EventEnvelopeOf(ProtocolEventOf(version)))]
TerminatedChunk == ResponseChunk(EventEnvelope(Str_terminated))

\* the step handles a ProtocolEvent
IsProtocolEventStep ==
    /\ AtFrameBoundary
    /\ session = "minecraft"
    /\ \E version \in Versions :
           lastEvent' = [kind |-> "data", chunk |-> ProtocolEventChunkOf[version]]

(***************************************************************************)
(* C12.  As stated: every envelope written through sendEnvelope(type,      *)
(* data) carries version equal to requestVersion and type equal to the     *)
(* supplied type, the protocol handshake echo included.                    *)
(***************************************************************************)
\* the types the session passes to sendEnvelope in each of its operations, and
\* in its ProtocolEvent listener (a 'data' event)
C12_SuppliedTypes(kind) ==
    CASE kind = "setBreakpoints" -> {Str_breakpoints, Str_request}
      [] kind = "sendMinecraftCommand" -> {Str_minecraftCommand}
      [] kind = "sendStartProfiler" -> {Str_startProfiler}
      [] kind = "sendStopProfiler" -> {Str_stopProfiler}
      [] kind = "data" -> {Str_protocol}
      [] OTHER -> {}

C12_RequestVersionStep ==
    \A i \in NewWrites :
        \E type \in C12_SuppliedTypes(lastEvent'.kind) :
            HasHead(socketWrites'[i], EnvelopeHead(requestVersion, type))

C12_VersionIsRequestVersion == [][C12_RequestVersionStep]_vars

(***************************************************************************)
(* C12, amended.  Every envelope written through sendEnvelope(type, data)  *)
(* carries the supplied type, and carries version equal to requestVersion  *)
(* unless the data object has a version key of its own, which replaces it: *)
(* the protocol handshake echo passes version: protocolInfo.version, so    *)
(* the echo carries the version of the configured ProtocolInfo.            *)
(***************************************************************************)
C12_EnvelopeStep ==
    \A i \in NewWrites :
        \E type \in C12_SuppliedTypes(lastEvent'.kind) :
            HasHead(socketWrites'[i],
                    EnvelopeHead(IF IsProtocolEventStep
                                 THEN Get(protocolInfo', Str_version).n
                                 ELSE requestVersion, type))

C12_EnvelopeVersionAndType == [][C12_EnvelopeStep]_vars

\* the echo of a session configured with version 5 was written, after an
\* envelope of an operation
C12_Witness ==
    /\ Len(socketWrites) = 2
    /\ HasHead(socketWrites[1], EnvelopeHead(requestVersion, Str_breakpoints))
    /\ HasHead(socketWrites[2], EnvelopeHead(5, Str_protocol))
    /\ protocolInfo = InfoFull

(***************************************************************************)
(* C13.  As stated: whenever the connection emits end because the stream   *)
(* ended, the session emits its own end event.                             *)
(***************************************************************************)
SessionEnd == [channel |-> JStr(Str_end), args |-> <<>>]

C13_StreamEndStep ==
    (session # "none" /\ lastEvent' = [kind |-> "end"])
        => sessionEmitted' = Append(sessionEmitted, SessionEnd)

C13_SessionEndsOnStreamEnd == [][C13_StreamEndStep]_vars

(***************************************************************************)
(* C13, amended.  A session emits its own end event when its connection    *)
(* dispatches the debuggee's "terminated" event, once for each such event; *)
(* when the stream ends, the connection emits end and the session emits    *)
(* nothing.                                                                *)
(***************************************************************************)
C13_TerminatedStep ==
    (session # "none" /\ AtFrameBoundary
        /\ lastEvent' = [kind |-> "data", chunk |-> TerminatedChunk])
        => sessionEmitted' = Append(sessionEmitted, SessionEnd)

C13_QuietStreamEndStep ==
    (session # "none" /\ lastEvent' = [kind |-> "end"])
        => /\ sessionEmitted' = sessionEmitted
           /\ emitted' = Append(emitted, EndSignal)

C13_SessionEndsOnTerminated == [][C13_TerminatedStep /\ C13_QuietStreamEndStep]_vars

\* the debuggee sent "terminated", the session emitted end, and then the
\* stream ended
C13_Witness ==
    /\ session # "none"
    /\ lastEvent = [kind |-> "end"]
    /\ sessionEmitted = <<SessionEnd>>
    /\ emitted = <<[channel |-> JStr(Str_terminated), args |-> <<EventOf(Str_terminated)>>],
                   EndSignal>>

(***************************************************************************)
(* C14.  In the MinecraftDebugSession, protocolVersion is 0 until the      *)
(* first ProtocolEvent and afterwards equals the version carried by the    *)
(* ProtocolEvent received last; no other event and no operation changes    *)
(* it.                                                                     *)
(***************************************************************************)
\* the positions of the ProtocolEvents among the events the connection dispatched
C14_ProtocolEvents == {i \in DOMAIN emitted : emitted[i].channel = JStr(Str_ProtocolEvent)}

C14_LatestVersion ==
    session = "minecraft" =>
        protocolVersion =
            IF C14_ProtocolEvents = {} THEN JNum(0)
            ELSE LET last == CHOOSE i \in C14_ProtocolEvents :
                                 \A j \in C14_ProtocolEvents : j <= i
                 IN  Get(emitted[last].args[1], Str_version)

C14_VersionStep ==
    session = "minecraft" =>
        IF IsProtocolEventStep
        THEN \E version \in Versions :
                 /\ lastEvent' = [kind |-> "data", chunk |-> ProtocolEventChunkOf[version]]
                 /\ protocolVersion' = JNum(version)
        ELSE protocolVersion' = protocolVersion

C14_ProtocolVersionIsLatest == []C14_LatestVersion /\ [][C14_VersionStep]_vars

\* version 6 was announced, then version 4, and an operation was called since
C14_Witness ==
    /\ session = "minecraft"
    /\ Cardinality(C14_ProtocolEvents) = 2
    /\ emitted[1].args = <<ProtocolEventOf(6)>>
    /\ emitted[2].args = <<ProtocolEventOf(4)>>
    /\ protocolVersion = JNum(4)
    /\ lastEvent.kind = "setProtocolInfo"

(***************************************************************************)
(* C15.  On each ProtocolEvent received, the MinecraftDebugSession writes  *)
(* exactly one "protocol" envelope if a ProtocolInfo is configured, and    *)
(* the envelope carries the configured version, target_module_uuid and     *)
(* passcode; it writes nothing if none is configured.                      *)
(***************************************************************************)
\* the echo of a configured ProtocolInfo, with the fields it has
C15_Echo(info) ==
    JObj(<<Prop(Str_version, Get(info, Str_version)), Prop(Str_type, JStr(Str_protocol))>>
         \o (IF Get(info, Str_targetModuleUuid) = Undefined THEN <<>>
             ELSE <<Prop(Str_target_module_uuid, Get(info, Str_targetModuleUuid))>>)
         \o (IF Get(info, Str_passcode) = Undefined THEN <<>>
             ELSE <<Prop(Str_passcode, Get(info, Str_passcode))>>))

C15_EchoStep ==
    IsProtocolEventStep =>
        IF protocolInfo' = Undefined
        THEN socketWrites' = socketWrites
        ELSE socketWrites' = Append(socketWrites, Packet(C15_Echo(protocolInfo')))

C15_OneEchoPerProtocolEvent == [][C15_EchoStep]_vars

\* a session configured with {version: 5, targetModuleUuid: "U", passcode: "P"}
\* received ProtocolEvent {version: 5} and wrote the echo
C15_Witness ==
    /\ session = "minecraft"
    /\ protocolInfo = InfoFull
    /\ lastEvent = [kind |-> "data", chunk |-> ProtocolEventChunkOf[5]]
    /\ socketWrites =
           <<Packet(JObj(<<Prop(Str_version, JNum(5)), Prop(Str_type, JStr(Str_protocol)),
                           Prop(Str_target_module_uuid, JStr(Str_U)),
                           Prop(Str_passcode, JStr(Str_P))>>))>>

(***************************************************************************)
(* C16.  The documented behaviour: the handshake echo is gated by the      *)
(* version the debuggee announced; target_module_uuid is echoed only when  *)
(* that version is at least 2, passcode only when it is at least 4.        *)
(***************************************************************************)
\* whether the JSON text of a packet has a member named key
C16_HasMember(packet, key) ==
    LET text == PacketBody(packet)
        name == Quote(key) \o <<58>>
    IN  \E i \in 1..Len(text) :
            i + Len(name) - 1 <= Len(text) /\ SubSeq(text, i, i + Len(name) - 1) = name

C16_GateStep ==
    IsProtocolEventStep =>
        \A i \in NewWrites :
            /\ C16_HasMember(socketWrites'[i], Str_target_module_uuid)
                   => VersionAtLeast(protocolVersion', 2)
            /\ C16_HasMember(socketWrites'[i], Str_passcode)
                   => VersionAtLeast(protocolVersion', SupportPasscode)

C16_EchoIsVersionGated == [][C16_GateStep]_vars

(***************************************************************************)
(* C17.  MinecraftDebugSession.setBreakpoints(path, bps) writes exactly    *)
(* one wire message per call.  With protocolVersion >= 6 it is a           *)
(* "setBreakpoints" request and no "breakpoints" envelope, and the result  *)
(* is the verification list of the debuggee's response.  With              *)
(* protocolVersion < 6, 0 before any handshake included, it is one         *)
(* "breakpoints" envelope and no request, and the result is one            *)
(* {verified: true} for each breakpoint supplied.                          *)
(***************************************************************************)
\* the envelope of the base class for a path and a list of breakpoints
C17_Envelope(fileName, breakpoints) ==
    JObj(<<Prop(Str_version, JNum(1)), Prop(Str_type, JStr(Str_breakpoints)),
           Prop(Str_breakpoints,
                JObj(<<Prop(Str_path, fileName)>>
                     \o (IF breakpoints.items = <<>> THEN <<>>
                         ELSE <<Prop(Str_breakpoints, breakpoints)>>)))>>)

\* "command":"setBreakpoints"
C17_Command == Quote(Str_command) \o <<58>> \o Quote(Str_setBreakpoints)

C17_HasText(packet, sub) ==
    LET text == PacketBody(packet)
    IN  \E i \in 1..Len(text) :
            i + Len(sub) - 1 <= Len(text) /\ SubSeq(text, i, i + Len(sub) - 1) = sub

C17_CallStep ==
    lastEvent'.kind = "setBreakpoints" =>
        LET fileName == lastEvent'.args[1]
            breakpoints == lastEvent'.args[2]
            written == socketWrites'[Len(socketWrites')]
        IN  /\ Len(socketWrites') = Len(socketWrites) + 1
            /\ ~lastEvent'.outcome.threw
            /\ IF protocolVersion.n >= 6
               THEN /\ HasHead(written, EnvelopeHead(1, Str_request))
                    /\ C17_HasText(written, C17_Command)
                    /\ lastEvent'.outcome.value = [t |-> "promise", seq |-> requestSeq]
                    /\ requestSeq' = requestSeq + 1
                    /\ requestSeq \notin DOMAIN futures
                    /\ futures' = MapSet(futures, requestSeq, Pending)
               ELSE /\ written = Packet(C17_Envelope(fileName, breakpoints))
                    /\ requestSeq' = requestSeq
                    /\ futures' = futures
                    /\ lastEvent'.outcome.value.t = "arr"
                    /\ Len(lastEvent'.outcome.value.items) = Len(breakpoints.items)
                    /\ \A i \in DOMAIN breakpoints.items :
                           lastEvent'.outcome.value.items[i] =
                               JObj(<<Prop(Str_verified, JBool(TRUE))>>)

\* the promise of the request settles with the list the debuggee answered
C17_ResponseStep ==
    (AtFrameBoundary /\ 1 \in DOMAIN futures /\ futures[1] = Pending
        /\ lastEvent' = [kind |-> "data", chunk |-> ResponseChunk(BreakpointsResponse(1))])
        => /\ futures'[1] = Fulfilled(VerificationList)
           /\ socketWrites' = socketWrites

C17_SetBreakpointsOneMessage == [][C17_CallStep /\ C17_ResponseStep]_vars

\* setBreakpoints before the handshake wrote the envelope; after
\* ProtocolEvent {version: 6} it wrote the request, and the response settled it
C17_Witness ==
    /\ Len(socketWrites) = 2
    /\ socketWrites[1] =
           Packet(C17_Envelope(JStr(Str_mainjs),
                               JArr(<<BreakpointInfo(10), BreakpointInfo(20)>>)))
    /\ HasHead(socketWrites[2], EnvelopeHead(1, Str_request))
    /\ protocolVersion = JNum(6)
    /\ 1 \in DOMAIN futures
    /\ futures[1] = Fulfilled(VerificationList)

(***************************************************************************)
(* C18.  sendMinecraftCommand writes exactly one "minecraftCommand"        *)
(* envelope, shaped by the current protocolVersion: nested, {command:      *)
(* {command, dimension_type}}, when the version is at least 5; flat,       *)
(* {command, dimension_type}, when it is exactly 4; dimension_type is      *)
(* "overworld" when none is given.                                         *)
(***************************************************************************)
C18_DimensionType(dimensionType) ==
    IF dimensionType = Undefined THEN JStr(Str_overworld) ELSE dimensionType

C18_Nested(command, dimensionType) ==
    JObj(<<Prop(Str_version, JNum(1)), Prop(Str_type, JStr(Str_minecraftCommand)),
           Prop(Str_command,
                JObj(<<Prop(Str_command, command),
                       Prop(Str_dimension_type, C18_DimensionType(dimensionType))>>))>>)

C18_Flat(command, dimensionType) ==
    JObj(<<Prop(Str_version, JNum(1)), Prop(Str_type, JStr(Str_minecraftCommand)),
           Prop(Str_command, command),
           Prop(Str_dimension_type, C18_DimensionType(dimensionType))>>)

C18_CommandStep ==
    (lastEvent'.kind = "sendMinecraftCommand" /\ protocolVersion.n >= 4)
        => /\ ~lastEvent'.outcome.threw
           /\ socketWrites' =
                  Append(socketWrites,
                         Packet(IF protocolVersion.n >= 5
                                THEN C18_Nested(lastEvent'.args[1], lastEvent'.args[2])
                                ELSE C18_Flat(lastEvent'.args[1], lastEvent'.args[2])))

C18_MinecraftCommandShape == [][C18_CommandStep]_vars

\* a command without dimension at version 4, then one for the nether at version 5
C18_Witness ==
    /\ protocolVersion = JNum(5)
    /\ lastEvent.kind = "sendMinecraftCommand"
    /\ socketWrites = <<Packet(C18_Flat(JStr(Str_say), Undefined)),
                        Packet(C18_Nested(JStr(Str_say), JStr(Str_nether)))>>

(***************************************************************************)
(* C19.  A version-gated operation called below its threshold fails        *)
(* without side effects: sendMinecraftCommand with protocolVersion < 4,    *)
(* and sendStartProfiler or sendStopProfiler with protocolVersion < 5 or   *)
(* with no target module uuid (neither the argument nor a configured       *)
(* ProtocolInfo gives one), throw an error, write nothing and leave the    *)
(* session and the connection as they were.  All three fail before any     *)
(* ProtocolEvent was received.                                             *)
(***************************************************************************)
C19_NoUuid(targetModuleUuid) ==
    /\ targetModuleUuid = Undefined
    /\ protocolInfo = Undefined \/ Get(protocolInfo, Str_targetModuleUuid) = Undefined

C19_Fails ==
    \/ lastEvent'.kind = "sendMinecraftCommand" /\ protocolVersion.n < 4
    \/ lastEvent'.kind = "sendStartProfiler"
           /\ (protocolVersion.n < 5 \/ C19_NoUuid(lastEvent'.args[1]))
    \/ lastEvent'.kind = "sendStopProfiler"
           /\ (protocolVersion.n < 5 \/ C19_NoUuid(lastEvent'.args[2]))

C19_FailStep ==
    C19_Fails
        => /\ lastEvent'.outcome.threw
           /\ lastEvent'.outcome.value.t = "Error"
           /\ UNCHANGED <<socketVars, parserVars, connVars>>

C19_BeforeHandshakeStep ==
    (C14_ProtocolEvents = {}
        /\ lastEvent'.kind \in {"sendMinecraftCommand", "sendStartProfiler", "sendStopProfiler"})
        => lastEvent'.outcome.threw /\ socketWrites' = socketWrites

C19_GatedOperationsFailCleanly == [][C19_FailStep /\ C19_BeforeHandshakeStep]_vars

\* sendStartProfiler failed before the handshake; after ProtocolEvent
\* {version: 5}, sendStopProfiler failed for want of a target module uuid
C19_Witness ==
    /\ protocolVersion = JNum(5)
    /\ protocolInfo = InfoBare
    /\ envelopesSent = 2
    /\ socketWrites = <<Packet(C15_Echo(InfoBare))>>
    /\ lastEvent.kind = "sendStopProfiler"
    /\ lastEvent.outcome = [threw |-> TRUE, value |-> Error(Str_ExpectTargetModuleUuid)]

(***************************************************************************)
(* Helpers of the inspect claims.                                          *)
(***************************************************************************)
\* container[name], undefined when the container has no such property
PropOf(container, name) ==
    IF \E i \in DOMAIN container.props : container.props[i].k = name
    THEN container.props[CHOOSE i \in DOMAIN container.props : container.props[i].k = name].v
    ELSE Undefined

\* the VariableInfo the debuggee holds for the property name of the object ref
InfoOf(ref, name) ==
    LET items == graph[ref].items
    IN  IF \E j \in DOMAIN items : Get(items[j], Str_name) = JStr(name)
        THEN items[CHOOSE j \in DOMAIN items : Get(items[j], Str_name) = JStr(name)]
        ELSE Undefined

InspectCalled == inspected # NotCalled
InspectResolved == inspected.state = "fulfilled"

(***************************************************************************)
(* C20.  inspect is cycle-safe and keeps identity.  Within one inspect     *)
(* call no two containers are made for the same ref, and every property    *)
(* that holds a container holds the one container made for the ref the     *)
(* debuggee reports under that name: for the cycle A.next = B, B.prev = A  *)
(* result.next.prev, once B's properties arrived, is result, and a ref     *)
(* reached by two paths is one shared container.  On every graph, cyclic ones included, the call       *)
(* resolves.                                                               *)
(***************************************************************************)
C20_OneContainerPerRef ==
    /\ \A p, q \in DOMAIN tasks : tasks[p].ref = tasks[q].ref => p = q
    /\ \A p, q \in DOMAIN tasks : tasks[p].id = tasks[q].id => p = q
    /\ Len(heap) = Cardinality(DOMAIN tasks)

C20_SameInstance ==
    \A p \in DOMAIN tasks :
        LET container == heap[tasks[p].id]
        IN  \A i \in DOMAIN container.props :
                container.props[i].v.t = "container"
                    => LET info == InfoOf(tasks[p].ref.n, container.props[i].k)
                           ref == Get(info, Str_variablesReference).n
                       IN  /\ info # Undefined
                           /\ ref \in DOMAIN referenceMap
                           /\ container.props[i].v = referenceMap[ref]
                           /\ \E q \in DOMAIN tasks :
                                  tasks[q].ref = JNum(ref)
                                      /\ Pointer(tasks[q].id) = referenceMap[ref]

C20_CycleClosed ==
    (graph = CycleGraph /\ InspectResolved /\ inspected.value.t = "container")
        => LET next == PropOf(heap[inspected.value.id], Str_next)
               prev == IF next.t = "container" THEN PropOf(heap[next.id], Str_prev)
                                               ELSE Undefined
           IN  prev # Undefined => prev = inspected.value

C20_SharedOnce ==
    (graph = SharedGraph /\ InspectResolved /\ inspected.value.t = "container")
        => LET x == PropOf(heap[inspected.value.id], Str_x)
               y == PropOf(heap[inspected.value.id], Str_y)
           IN  (x.t = "container" \/ y.t = "container") => x = y

C20_Identity ==
    C20_OneContainerPerRef /\ C20_SameInstance /\ C20_CycleClosed /\ C20_SharedOnce

C20_InspectCycleSafe == []C20_Identity /\ (InspectCalled ~> InspectResolved)

\* inspect of A with the default maxDepth resolved after both responses:
\* result.next is B and B.prev is result
C20_Witness ==
    /\ graph = CycleGraph
    /\ answered = {1, 2}
    /\ inspected = Fulfilled(Pointer(1))
    /\ PropOf(heap[1], Str_next) = Pointer(2)
    /\ PropOf(heap[2], Str_prev) = Pointer(1)

\* the depth the inspect call started with, once it made a container
RootDepth == (CHOOSE p \in DOMAIN tasks : tasks[p].k.parent = 0)
HasRoot == \E p \in DOMAIN tasks : tasks[p].k.parent = 0
\* no variables request of the inspect call failed so far
NoFetchFailed == \A p \in DOMAIN tasks : futures[p].state # "rejected"

(***************************************************************************)
(* C21.  inspect is depth-bounded.  A container is only made, and a        *)
(* variables request only written, by a call with depth left: the call on  *)
(* the inspected handle has maxDepth left and each nested call one less    *)
(* than the call that awaits it.  With maxDepth 0 the result for an object *)
(* handle is its string form and nothing is written.  On the chain         *)
(* O1.next = O2, O2.next = O3 with maxDepth d in {1, 2} and no failed      *)
(* request the resolved result has exactly d nested containers, the        *)
(* deepest of which holds under next the valueAsString of the next object. *)
(***************************************************************************)
C21_DepthLeft ==
    /\ Len(socketWrites) = Cardinality(DOMAIN tasks)
    /\ \A p \in DOMAIN tasks :
           /\ tasks[p].depth > 0
           /\ tasks[p].k.parent # 0
                  => /\ tasks[p].k.parent \in DOMAIN tasks
                     /\ tasks[p].depth = tasks[tasks[p].k.parent].depth - 1

C21_DepthZero ==
    (lastEvent.kind = "inspect" /\ lastEvent.maxDepth = JNum(0)
        /\ lastEvent.handle = RootHandle)
        => /\ inspected = Fulfilled(JStr(Str_ObjectObject))
           /\ socketWrites = <<>>
           /\ heap = <<>>

C21_Chain ==
    (graph = ChainGraph /\ HasRoot /\ InspectResolved /\ NoFetchFailed
        /\ tasks[RootDepth].depth \in {1, 2})
        => LET d == tasks[RootDepth].depth
           IN  /\ Len(heap) = d
               /\ Len(socketWrites) = d
               /\ inspected.value = Pointer(1)
               /\ \A i \in 1..(d - 1) : PropOf(heap[i], Str_next) = Pointer(i + 1)
               /\ PropOf(heap[d], Str_next) = JStr(Str_ObjectObject)

C21_DepthBounded == C21_DepthLeft /\ C21_DepthZero /\ C21_Chain

\* the chain inspected with maxDepth 2: two containers, and the third object
\* as its string
C21_Witness ==
    /\ graph = ChainGraph
    /\ InspectResolved
    /\ HasRoot /\ tasks[RootDepth].depth = 2
    /\ answered = {1, 2}
    /\ PropOf(heap[1], Str_next) = Pointer(2)
    /\ PropOf(heap[2], Str_next) = JStr(Str_ObjectObject)

\* whether the debuggee reports the object a task inspects as an array
RemoteIsArray(p) ==
    IF tasks[p].k.parent = 0 THEN FALSE
    ELSE Get(InfoOf(tasks[tasks[p].k.parent].ref.n, tasks[p].k.name),
             Str_indexedVariables) # Undefined

\* the variables request of task p failed and the task went on from it
FetchFailed(p) == futures[p].state = "rejected" /\ tasks[p].state # "fetching"
\* the variables request of task p was answered with the properties and the
\* task has returned
FetchedAndDone(p) == futures[p].state = "fulfilled" /\ tasks[p].state = "done"

(***************************************************************************)
(* C22.  A variables request that fails during inspect (an error response, *)
(* a timeout, the stream ending) is not propagated: the inspect call never *)
(* rejects and nothing is thrown.  The node of the failed request is an    *)
(* empty container, an array when the debuggee reported an array and an    *)
(* object otherwise; every other node whose request was answered holds all *)
(* the properties the debuggee reported for it; and the call resolves.     *)
(***************************************************************************)
C22_NotPropagated == inspected.state # "rejected" /\ uncaught = <<>>

C22_EmptyContainer ==
    \A p \in DOMAIN tasks :
        /\ heap[tasks[p].id].isArray = RemoteIsArray(p)
        /\ FetchFailed(p) => heap[tasks[p].id].props = <<>>

C22_OthersMaterialised ==
    \A p \in DOMAIN tasks :
        FetchedAndDone(p)
            => LET items == graph[tasks[p].ref.n].items
               IN  /\ Len(heap[tasks[p].id].props) = Len(items)
                   /\ \A i \in DOMAIN items :
                          \E j \in DOMAIN heap[tasks[p].id].props :
                              JStr(heap[tasks[p].id].props[j].k) = Get(items[i], Str_name)

C22_Safe == C22_NotPropagated /\ C22_EmptyContainer /\ C22_OthersMaterialised

C22_SomeFetchFailed == InspectCalled /\ \E p \in DOMAIN tasks : futures[p].state = "rejected"

C22_FetchErrorsSuppressed == []C22_Safe /\ (C22_SomeFetchFailed ~> InspectResolved)

\* R.a = S, R.b = T: the debuggee rejected the request for S and answered the
\* one for T; the result holds an empty S and a T with its property
C22_Witness ==
    /\ graph = DiamondGraph
    /\ InspectResolved
    /\ Len(heap) = 3
    /\ FetchFailed(2)
    /\ FetchedAndDone(3)
    /\ timers[2] = "cleared"
    /\ socketState = "open"
    /\ heap[2].props = <<>>
    /\ PropOf(heap[1], Str_a) = Pointer(2)
    /\ PropOf(heap[1], Str_b) = Pointer(3)
    /\ PropOf(heap[3], Str_s) = Pointer(2)

\* the length of a local array: one more than its greatest index
ArrayLength(props) ==
    LET indices == {IntegerLiteralValue(props[i].k) : i \in {j \in DOMAIN props : IsIndex(props[j].k)}}
    IN  IF indices = {} THEN 0 ELSE 1 + (CHOOSE n \in indices : \A m \in indices : m <= n)

RECURSIVE LocalValue(_, _)
\* the local value behind a result of inspect, containers followed: an object
\* by its properties in insertion order, an array by its elements
LocalValue(h, v) ==
    IF v.t # "container" THEN v
    ELSE IF h[v.id].isArray
    THEN JArr([i \in 1..ArrayLength(h[v.id].props) |->
                  LocalValue(h, PropOf(h[v.id], NumberToString(i - 1, 10)))])
    ELSE JObj([i \in DOMAIN h[v.id].props |->
                  Prop(h[v.id].props[i].k, LocalValue(h, h[v.id].props[i].v))])

RECURSIVE DeepEqual(_, _)
\* assert.deepEqual on these values: objects by their keys, whatever the
\* order, arrays element by element
DeepEqual(a, b) ==
    IF a.t # b.t THEN FALSE
    ELSE IF a.t = "obj"
    THEN /\ Len(a.kv) = Len(b.kv)
         /\ \A i \in DOMAIN a.kv :
                \E j \in DOMAIN b.kv :
                    a.kv[i].k = b.kv[j].k /\ DeepEqual(a.kv[i].v, b.kv[j].v)
    ELSE IF a.t = "arr"
    THEN /\ Len(a.items) = Len(b.items)
         /\ \A i \in DOMAIN a.items : DeepEqual(a.items[i], b.items[i])
    ELSE a = b

\* the values the debuggee holds in the acyclic graphs
RemoteValueGraph ==
    JObj(<<Prop(Str_number, JNum(1)),
           Prop(Str_float, [t |-> "float", text |-> Str_eighth]),
           Prop(Str_string, JStr(Str_hi)),
           Prop(Str_boolean, JBool(FALSE)),
           Prop(Str_null, JNull),
           Prop(Str_undefined, Undefined),
           Prop(Str_object, JObj(<<Prop(Str_array, JArr(<<JNum(1), JNum(2)>>))>>))>>)
RemoteChainGraph ==
    JObj(<<Prop(Str_next, JObj(<<Prop(Str_next, JObj(<<Prop(Str_v, JNum(7))>>))>>))>>)
RemoteSharedGraph ==
    JObj(<<Prop(Str_x, JObj(<<Prop(Str_v, JNum(7))>>)),
           Prop(Str_y, JObj(<<Prop(Str_v, JNum(7))>>))>>)
RemoteValue ==
    IF graph = ValueGraph THEN RemoteValueGraph
    ELSE IF graph = ChainGraph THEN RemoteChainGraph
    ELSE RemoteSharedGraph

\* the args of the variables request task p wrote
ArgsWritten(p) == Get(RequestRead(p), Str_args)

(***************************************************************************)
(* C23.  For an acyclic remote value nested less deeply than maxDepth, and *)
(* with every request answered, inspect resolves to a structurally equal   *)
(* local value: an object is a mapping keyed by the names of its children, *)
(* an array an ordered sequence of indexedCount elements.  The request for *)
(* an array carries filter "indexed", start 0 and count indexedCount, the  *)
(* request for any other object only variablesReference.                   *)
(***************************************************************************)
C23_RequestArgs ==
    \A p \in DOMAIN tasks :
        ArgsWritten(p) =
            IF RemoteIsArray(p)
            THEN JObj(<<Prop(Str_variablesReference, tasks[p].ref),
                        Prop(Str_filter, JStr(Str_indexed)),
                        Prop(Str_start, JNum(0)),
                        Prop(Str_count,
                             Get(InfoOf(tasks[tasks[p].k.parent].ref.n, tasks[p].k.name),
                                 Str_indexedVariables))>>)
            ELSE JObj(<<Prop(Str_variablesReference, tasks[p].ref)>>)

C23_Equal ==
    (graph \in {ValueGraph, ChainGraph, SharedGraph} /\ InspectResolved /\ HasRoot
        /\ tasks[RootDepth].depth = DefaultMaxDepth
        /\ \A p \in DOMAIN tasks : futures[p].state = "fulfilled")
        => DeepEqual(LocalValue(heap, inspected.value), RemoteValue)

C24_NoObject(handle) == Truthy(handle.primitive) \/ handle.type # JStr(Str_object)

C24_Step ==
    (lastEvent'.kind = "inspect" /\ C24_NoObject(lastEvent'.handle))
        => /\ inspected' = Fulfilled(IF Truthy(lastEvent'.handle.primitive)
                                     THEN lastEvent'.handle.primitiveValue
                                     ELSE lastEvent'.handle.valueAsString)
           /\ socketWrites' = socketWrites
           /\ requestSeq' = requestSeq
           /\ requestReactions' = requestReactions
           /\ timers' = timers
           /\ referenceMap' = EmptyMap
           /\ heap' = <<>>
           /\ tasks' = EmptyMap

C24_NonObjectsReturnAtOnce == [][C24_Step]_vars

\* inspect on the function handle resolved to the function's text, and
\* nothing was written
C24_Witness ==
    /\ lastEvent.kind = "inspect"
    /\ lastEvent.handle = FunctionHandle
    /\ lastEvent.handle.ref = JNum(1)
    /\ lastEvent.maxDepth = Undefined
    /\ inspected = Fulfilled(JStr(Str_FunctionText))
    /\ socketWrites = <<>>
    /\ referenceMap = EmptyMap

\* the containers that can be reached from a value through properties
RECURSIVE ReachableFrom(_, _)
ReachableFrom(seen, frontier) ==
    IF frontier \subseteq seen THEN seen
    ELSE ReachableFrom(seen \cup frontier,
                       UNION {{heap[id].props[i].v.id :
                                   i \in {j \in DOMAIN heap[id].props :
                                              heap[id].props[j].v.t = "container"}} :
                              id \in frontier})
ReturnedContainers ==
    IF InspectResolved /\ inspected.value.t = "container"
    THEN ReachableFrom({}, {inspected.value.id})
    ELSE {}

(***************************************************************************)
(* C25.  When an inspect call has resolved, every container that can be    *)
(* reached from the returned value, those handed out from the reference    *)
(* map before they were complete included, carries in its QuickJSRef slot  *)
(* the ref of the handle it was made for.                                  *)
(***************************************************************************)
C25_ContainersTagged ==
    \A id \in ReturnedContainers :
        \E p \in DOMAIN tasks :
            /\ tasks[p].id = id
            /\ heap[id].QuickJSRef = tasks[p].ref
            /\ referenceMap[tasks[p].ref.n] = Pointer(id)

\* the cycle resolved: B received A from the reference map before A was
\* tagged, and both carry their refs
C25_Witness ==
    /\ graph = CycleGraph
    /\ InspectResolved
    /\ ReturnedContainers = {1, 2}
    /\ PropOf(heap[2], Str_prev) = Pointer(1)
    /\ heap[1].QuickJSRef = JNum(1)
    /\ heap[2].QuickJSRef = JNum(2)

\* the ref the p-th packet written asks the variables of
RefRequested(p) == Get(ArgsWritten(p), Str_variablesReference)

(***************************************************************************)
(* C30.  Within one inspect call at most one variables request is written  *)
(* per ref, on every graph and in every order of the responses: the ref is *)
(* in the reference map from before its request is sent, so a second path  *)
(* to it, a sibling included, finds it there.                              *)
(***************************************************************************)
C30_OneRequestPerRef ==
    /\ \A p, q \in DOMAIN socketWrites : RefRequested(p) = RefRequested(q) => p = q
    /\ \A p \in DOMAIN socketWrites :
           /\ Get(RequestRead(p), Str_command) = JStr(Str_variables)
           /\ RefRequested(p).t = "num"
           /\ RefRequested(p).n \in DOMAIN referenceMap
           /\ referenceMap[RefRequested(p).n].t = "container"

\* R.x and R.y are the same unseen object S: one request for R, one for S
C30_Witness ==
    /\ graph = SharedGraph
    /\ InspectResolved
    /\ Len(socketWrites) = 2
    /\ RefRequested(1) = JNum(1)
    /\ RefRequested(2) = JNum(2)
    /\ PropOf(heap[1], Str_x) = Pointer(2)
    /\ PropOf(heap[1], Str_y) = Pointer(2)
    /\ PropOf(heap[2], Str_v) = JNum(7)

\* what parseInt(value, 10) and parseFloat(value) are to give on the values
\* of the explored VariableInfo records
IntegerDecoded ==
    [value \in InfoValues |->
        CASE value = Str_two -> JNum(2)
          [] value = Str_minus12 -> JNum(0 - 12)
          [] value = Str_12px -> JNum(12)
          [] value = Str_eighth -> JNum(0)
          [] OTHER -> NaN]
FloatDecoded ==
    [value \in InfoValues |->
        IF value = Str_eighth THEN [t |-> "float", text |-> Str_eighth]
        ELSE IntegerDecoded[value]]
PrimitiveTypes ==
    {JStr(Str_string), JStr(Str_integer), JStr(Str_float), JStr(Str_boolean),
     JStr(Str_null), JStr(Str_undefined)}

\* the typing rules, for a Variable v built from the fields of a VariableInfo
C26_Typed(v, type, value, indexedVariables) ==
    /\ v.type = type
    /\ v.primitive = JBool(type \in PrimitiveTypes)
    /\ type = JStr(Str_string) => v.primitiveValue = JStr(value)
    /\ type = JStr(Str_integer) => v.primitiveValue = IntegerDecoded[value]
    /\ type = JStr(Str_float) => v.primitiveValue = FloatDecoded[value]
    /\ type = JStr(Str_boolean) => v.primitiveValue = JBool(value = Str_true)
    /\ type = JStr(Str_null) => v.primitiveValue = JNull
    /\ type = JStr(Str_undefined) => v.primitiveValue = Undefined
    /\ type \in PrimitiveTypes => v.isArray = JBool(FALSE) /\ v.valueAsString = Undefined
    /\ type \in {JStr(Str_object), JStr(Str_function)}
           => /\ v.isArray = JBool(indexedVariables # Undefined)
              /\ v.indexedCount = indexedVariables
              /\ v.valueAsString = JStr(value)
    /\ type \notin PrimitiveTypes \cup {JStr(Str_object), JStr(Str_function)}
           => /\ v.isArray = JBool(FALSE)
              /\ v.valueAsString = JStr(value)

(***************************************************************************)
(* C26.  A Variable built from a VariableInfo is primitive exactly when    *)
(* its type is string, integer, float, boolean, null or undefined, with    *)
(* primitiveValue decoded per type; for object and function it is not      *)
(* primitive, isArray tells whether indexedVariables is present and        *)
(* indexedCount is indexedVariables; for any other type and for none it is *)
(* not primitive, keeps valueAsString and is no array.  The Variable of    *)
(* the evaluate reply {result: "2", type: "integer", variablesReference:   *)
(* 0} has name "result", primitive true and primitiveValue 2.              *)
(***************************************************************************)
C26_FromVariableInfo ==
    lastEvent.kind = "variable"
        => /\ lastEvent.variable.name = Get(lastEvent.info, Str_name)
           /\ lastEvent.variable.ref = Get(lastEvent.info, Str_variablesReference)
           /\ C26_Typed(lastEvent.variable, Get(lastEvent.info, Str_type),
                        Get(lastEvent.info, Str_value).s,
                        Get(lastEvent.info, Str_indexedVariables))

C26_FromEvaluate ==
    lastEvent.kind = "evaluate"
        => /\ lastEvent.variable.name = JStr(Str_result)
           /\ lastEvent.variable.ref = JNum(0)
           /\ C26_Typed(lastEvent.variable, Get(lastEvent.body, Str_type),
                        Get(lastEvent.body, Str_result).s, Undefined)
           /\ lastEvent.body = EvaluateBodyOf(JStr(Str_integer), Str_two)
                  => /\ lastEvent.variable.primitive = JBool(TRUE)
                     /\ lastEvent.variable.primitiveValue = JNum(2)
                     /\ lastEvent.variable.type = JStr(Str_integer)

C26_VariableTyping == C26_FromVariableInfo /\ C26_FromEvaluate

\* an object without elements: indexedVariables is 0, and the Variable is an
\* array of count 0
C26_Witness ==
    /\ lastEvent.kind = "variable"
    /\ lastEvent.info = VariableInfoOf(JStr(Str_object), Str_hi, 7, JNum(0))
    /\ lastEvent.variable.primitive = JBool(FALSE)
    /\ lastEvent.variable.isArray = JBool(TRUE)
    /\ lastEvent.variable.indexedCount = JNum(0)
    /\ lastEvent.variable.valueAsString = JStr(Str_hi)

(***************************************************************************)
(* C27.  After each inbound event, timer expiry or send has been fully     *)
(* processed, the pending map requestReactions holds exactly the requests  *)
(* that were sent and have not settled, each under its own request_seq:    *)
(* an entry is created on send and is gone, with the request's timer no    *)
(* longer armed, once the request has settled by a response, by its        *)
(* timeout or by stream end.                                               *)
(***************************************************************************)
\* the requests sent so far
C27_Sent == 1..(requestSeq - 1)
\* the requests sent and not settled
C27_Unsettled == {p \in C27_Sent : promises[p] = Pending}

C27_PendingMapIsUnsettledRequests ==
    /\ DOMAIN promises = C27_Sent
    /\ DOMAIN timers = C27_Sent
    /\ DOMAIN requestReactions = C27_Unsettled
    /\ \A p \in DOMAIN requestReactions : requestReactions[p] = p
    /\ \A p \in C27_Sent : (timers[p] = "armed") <=> (p \in C27_Unsettled)
    /\ lastEvent.kind = "sendRequest" => lastEvent.seq \in DOMAIN requestReactions

\* request 1 was rejected by stream end and its timer cancelled; request 2,
\* sent after the end, is the one entry of the map
C27_Witness ==
    /\ socketState = "ended"
    /\ requestSeq = 3
    /\ promises[1] = Rejected(ProtocolClosed)
    /\ timers[1] = "cleared"
    /\ promises[2] = Pending
    /\ DOMAIN requestReactions = {2}

(***************************************************************************)
(* C28.  The documented behaviour: the framing parser is a two-state       *)
(* machine that starts in LENGTH with trigger 9 and strictly alternates.   *)
(* In LENGTH it consumes exactly 9 bytes once at least 9 are buffered,     *)
(* sets the trigger to the parsed hex value N and moves to CONTENT; in     *)
(* CONTENT it consumes exactly N bytes once at least N are buffered,       *)
(* delivers them upstream as one message and returns to LENGTH with        *)
(* trigger 9; whenever the state is LENGTH the trigger is 9.               *)
(***************************************************************************)
RECURSIVE C28_Machine(_, _, _, _)
\* the machine of the statement, run on the buffered bytes until it waits
C28_Machine(st, trigger, buffer, messages) ==
    IF st = "length"
    THEN IF Len(buffer) >= HeaderLength
         THEN C28_Machine("content",
                          parseInt16(BufferToString(SubSeq(buffer, 1, HeaderLength))),
                          SubSeq(buffer, HeaderLength + 1, Len(buffer)), messages)
         ELSE [state |-> st, trigger |-> trigger, buffer |-> buffer, messages |-> messages]
    ELSE IF trigger.t = "num" /\ Len(buffer) >= trigger.n
         THEN C28_Machine("length", JNum(HeaderLength),
                          SubSeq(buffer, trigger.n + 1, Len(buffer)),
                          Append(messages, SubSeq(buffer, 1, trigger.n)))
         ELSE [state |-> st, trigger |-> trigger, buffer |-> buffer, messages |-> messages]

\* the closure stands where the machine stands
C28_ParserIs(m) ==
    /\ state' = m.state
    /\ triggerLength' = m.trigger
    /\ chunks' = m.buffer
    /\ bufferLength' = Len(m.buffer)

C28_LengthWaitsForNine == state = "length" => triggerLength = JNum(HeaderLength)

\* a 'data' event of the connection's socket
C28_DataStep ==
    dataEvents' = dataEvents + 1
        => C28_ParserIs(C28_Machine(state, triggerLength, chunks \o lastEvent'.chunk, <<>>))

C28_TwoStateMachine == []C28_LengthWaitsForNine /\ [][C28_DataStep]_vars

\* a 'data' event of the looped-back stream, whose upstream handler records
\* the message and returns
C28_FeedStep ==
    fed' # fed
        => \E m \in {C28_Machine(state, triggerLength,
                                  chunks \o SubSeq(Stream, fed + 1, fed'), <<>>)} :
               C28_ParserIs(m) /\ delivered' = delivered \o m.messages

\* the statement restricted to an upstream handler that returns normally
C28_TwoStateMachineWhenDelivered == []C28_LengthWaitsForNine /\ [][C28_FeedStep]_vars

(***************************************************************************)
(* C29.  The documented behaviour: on stream end the connection emits end, *)
(* then takes a snapshot of the pending reactions and clears the pending   *)
(* map, and only then rejects the snapshot's requests with 'Protocol is    *)
(* closed'.  When any of these rejections is observed the pending map      *)
(* holds none of the snapshot's entries, and a request sent in reaction to *)
(* a rejection is neither rejected nor erased by the same teardown: it is  *)
(* in the map afterwards, its timer armed and its callback not called.     *)
(***************************************************************************)
\* the calls the callback of request p received in this step
C29_NewCalls(p) ==
    SubSeq(callbacks'[p].calls, Len(callbacks[p].calls) + 1, Len(callbacks'[p].calls))

C29_EndStep ==
    (socketState = "open" /\ socketState' = "ended") =>
        LET snapshot == DOMAIN requestReactions
            sentInReaction == requestSeq..(requestSeq' - 1)
        IN  /\ emitted' = Append(emitted, EndSignal)
            /\ \A p \in snapshot :
                   /\ Len(C29_NewCalls(p)) = 1
                   /\ C29_NewCalls(p)[1].err = ProtocolClosed
                   /\ C29_NewCalls(p)[1].pending \cap snapshot = {}
            /\ \A q \in sentInReaction :
                   /\ q \in DOMAIN requestReactions'
                   /\ timers'[q] = "armed"
                   /\ callbacks'[q].calls = <<>>

C29_TeardownClearsBeforeRejecting == [][C29_EndStep]_vars

\* the statement for QuickJSDebugConnection alone
C29_ConnectionClearsBeforeRejecting == [][impl = "connection" => C29_EndStep]_vars

\* QuickJSDebugConnection: request 1 was rejected by the stream end, its
\* handler saw an empty map and sent request 2, which is pending in the map
C29_ConnectionWitness ==
    /\ impl = "connection"
    /\ lastEvent = [kind |-> "end"]
    /\ 1 \in DOMAIN callbacks
    /\ callbacks[1].kind = "retry"
    /\ callbacks[1].calls = <<[err |-> ProtocolClosed, result |-> Undefined, pending |-> {}]>>
    /\ DOMAIN requestReactions = {2}
    /\ timers[2] = "armed"

(***************************************************************************)
(* C31.  The documented behaviour: for a remote object graph without       *)
(* cycles and fixed options, also when one ref is reachable along paths of *)
(* different lengths and maxDepth cuts some of them, the value inspect     *)
(* returns is the same for every order in which the debuggee answers the   *)
(* outstanding variables requests: it is the value returned when every     *)
(* request is answered as soon as it is written, oldest first.             *)
(***************************************************************************)
C31_AcyclicGraphs == {SharedGraph, ChainGraph, ValueGraph, LadderGraph}

\* the connection and the debuggee before the inspect call
C31_BeforeCall ==
    [Conn EXCEPT !.socketWrites = <<>>, !.requestSeq = 1, !.requestReactions = EmptyMap,
                 !.promises = EmptyMap, !.futures = EmptyMap, !.timers = EmptyMap,
                 !.emitted = <<>>, !.inspected = NotCalled, !.inspectProto = FALSE,
                 !.referenceMap = EmptyMap, !.heap = <<>>, !.tasks = EmptyMap,
                 !.answered = {}]

\* the parser between two frames
C31_FrameBoundary ==
    [chunks |-> <<>>, bufferLength |-> 0, state |-> "length",
     triggerLength |-> JNum(HeaderLength)]

\* the ref the p-th packet written asks for
C31_RefRequested(c, p) ==
    Get(Get(Get(JSONparse(BufferToString(PacketBody(c.socketWrites[p]))).value, Str_request),
            Str_args), Str_variablesReference).n

\* the debuggee answers request p
C31_Answer(c, p) ==
    runMicrotasks(onChunk([c EXCEPT !.answered = @ \cup {p}],
                          onData(C31_FrameBoundary,
                                 VariablesChunkOf[p][c.graph][C31_RefRequested(c, p)])).conn)

RECURSIVE C31_OldestFirst(_)
\* the debuggee answers every request, the oldest outstanding one first
C31_OldestFirst(c) ==
    LET outstanding == DOMAIN c.socketWrites \ c.answered
    IN  IF outstanding = {} THEN c
        ELSE C31_OldestFirst(
                 C31_Answer(c, CHOOSE p \in outstanding : \A q \in outstanding : p <= q))

\* the value of inspect({maxDepth}) on the handle of ref 1 in that order
C31_OldestFirstValue ==
    [depth \in 0..DefaultMaxDepth |->
        [g \in C31_AcyclicGraphs |->
            LET c == C31_OldestFirst(
                         runMicrotasks(inspect([C31_BeforeCall EXCEPT !.graph = g], RootHandle,
                                               JNum(depth), FALSE)))
            IN  LocalValue(c.heap, c.inspected.value)]]

\* every variables request of the call was answered with the properties
C31_AllAnswered == \A p \in DOMAIN tasks : futures[p].state = "fulfilled"

C31_SameForEveryOrder ==
    (graph \in C31_AcyclicGraphs /\ InspectResolved /\ HasRoot /\ C31_AllAnswered)
        => DeepEqual(LocalValue(heap, inspected.value),
                     C31_OldestFirstValue[tasks[RootDepth].depth][graph])

(***************************************************************************)
(* C32: the envelopes that ask for no response.                            *)
(***************************************************************************)
\* the text occurs in the buffer
C32_HasText(buffer, text) ==
    \E i \in 1..(Len(buffer) - Len(text) + 1) : SubSeq(buffer, i, i + Len(text) - 1) = text

\* the calls that write through sendEnvelope only
C32_EnvelopeCalls ==
    {"resume", "setStopOnException", "sendMinecraftCommand", "sendStartProfiler",
     "sendStopProfiler"}

\* the step is a call of a fire-and-forget operation (setBreakpoints among them
\* while the version is below SupportBreakpointsAsRequest), or the delivery of
\* a ProtocolEvent, which the session answers with the protocol envelope
C32_FireAndForgetStep ==
    \/ /\ envelopesSent' = envelopesSent + 1
       /\ \/ lastEvent'.kind \in C32_EnvelopeCalls
          \/ /\ lastEvent'.kind = "setBreakpoints"
             /\ VersionBelow(protocolVersion, SupportBreakpointsAsRequest)
    \/ /\ dataEvents' = dataEvents + 1
       /\ lastEvent'.chunk \in EnvelopeChunks

\* the buffers the step handed to socket.write
C32_Written == SubSeq(socketWrites', Len(socketWrites) + 1, Len(socketWrites'))

C32_NoRequestState ==
    /\ \A i \in DOMAIN C32_Written : ~C32_HasText(C32_Written[i], Str_request_seq)
    /\ requestSeq' = requestSeq
    /\ requestReactions' = requestReactions
    /\ promises' = promises
    /\ futures' = futures
    /\ timers' = timers

\* C32: an envelope written by resume, setBreakpoints before
\* SupportBreakpointsAsRequest, setStopOnException, the protocol echo,
\* sendMinecraftCommand, sendStartProfiler or sendStopProfiler carries no
\* request_seq, and writing it leaves the request_seq counter, the map of
\* pending requests and the timers as they were
C32_EnvelopesAreFireAndForget ==
    [][C32_FireAndForgetStep => C32_NoRequestState]_vars

\* a request is pending and the call handled last wrote an envelope after it
C32_LastWrite == socketWrites[Len(socketWrites)]

C32_Witness ==
    /\ lastEvent.kind \in C32_EnvelopeCalls \cup {"setBreakpoints"}
    /\ ~lastEvent.outcome.threw
    /\ DOMAIN requestReactions = {1}
    /\ DOMAIN timers = {1}
    /\ requestSeq = 2
    /\ Len(socketWrites) >= 2
    /\ C32_HasText(socketWrites[1], Str_request_seq)
    /\ ~C32_HasText(C32_LastWrite, Str_request_seq)

(***************************************************************************)
(* C33: the parser's byte accounting.                                      *)
(***************************************************************************)
RECURSIVE C33_Rest(_, _)
\* what is left of the bytes received once a header of HeaderLength bytes and
\* the body have been taken off its front for every message delivered, in
\* order; <<-1>> when a delivered body is not the bytes that follow its header
C33_Rest(received, bodies) ==
    IF bodies = <<>> THEN received
    ELSE LET n == Len(Head(bodies))
         IN  IF /\ Len(received) >= HeaderLength + n
                /\ SubSeq(received, HeaderLength + 1, HeaderLength + n) = Head(bodies)
             THEN C33_Rest(SubSeq(received, HeaderLength + n + 1, Len(received)), Tail(bodies))
             ELSE <<-1>>

\* the bytes received that no delivered message accounts for
C33_Unconsumed == C33_Rest(SubSeq(Stream, 1, fed), delivered)

\* the number of bytes consumed: a header and a body for each message
\* delivered, and the header of the message awaited
C33_Consumed ==
    LET RECURSIVE total(_)
        total(bodies) ==
            IF bodies = <<>> THEN 0 ELSE HeaderLength + Len(Head(bodies)) + total(Tail(bodies))
    IN  total(delivered) + (IF state = "content" THEN HeaderLength ELSE 0)

\* C33: after every data event the byte counter is the number of bytes held,
\* which is the number received less the number consumed, and the bytes
\* received are, in order, the header and body chunks consumed and then the
\* bytes held
C33_ByteAccounting ==
    /\ bufferLength = Len(chunks)
    /\ Len(chunks) = fed - C33_Consumed
    /\ IF state = "content"
       THEN /\ Len(C33_Unconsumed) >= HeaderLength
            /\ SubSeq(C33_Unconsumed, HeaderLength + 1, Len(C33_Unconsumed)) = chunks
       ELSE C33_Unconsumed = chunks

\* a message was delivered, the next header is consumed and part of its body held
C33_Witness ==
    /\ Len(delivered) >= 1
    /\ state = "content"
    /\ bufferLength >= 1
    /\ fed < Len(Stream)

(***************************************************************************)
(* C34: the two framing implementations on the same stream and chunking.   *)
(***************************************************************************)
\* C34: given the same 'data' events, the listener that starts with state
\* null and trigger 0 has passed to onMessage exactly the buffers the
\* listener that starts in "length" with trigger 9 has, in the same order
C34_SameMessages == legacy.delivered = delivered

\* both listeners have delivered the same two messages and hold the same
\* part of a third body, one of the frames having a malformed header
C34_Witness ==
    /\ Len(delivered) >= 2
    /\ legacy.delivered = delivered
    /\ legacy.parser = Parser
    /\ state = "content"
    /\ bufferLength >= 1
    /\ rawWrites >= 1

(***************************************************************************)
(* C35: the parser after an upstream handler that throws.                  *)
(***************************************************************************)
\* a 'data' event of the connection's socket out of which the handler threw
C35_HandlerThrew == dataEvents' = dataEvents + 1 /\ Len(uncaught') = Len(uncaught) + 1

\* the parser waits for a header, with no part of the frame that threw held
C35_ThrowStep ==
    (AtFrameBoundary /\ C35_HandlerThrew)
        => /\ state' = "length"
           /\ triggerLength' = JNum(HeaderLength)
           /\ chunks' = <<>>
           /\ bufferLength' = 0

\* C35: when the upstream handler throws while a message is delivered, the
\* parser is left in state "length" with trigger 9 and its buffer at the next
\* header, so that the frames that follow are parsed and delivered
C35_ParserSurvivesThrow == [][C35_ThrowStep]_vars

(***************************************************************************)
(* C36: the end and error channels of the connection.                      *)
(***************************************************************************)
\* the emissions of the step on the end and error channels
C36_EndOrErrorEmitted ==
    {i \in (Len(emitted) + 1)..Len(emitted') :
        emitted'[i].channel \in {JStr(Str_end), JStr(Str_error)}}

C36_EmitStep ==
    C36_EndOrErrorEmitted # {}
        => /\ lastEvent'.kind \in {"end", "error"}
           /\ lastEvent'.kind = "end" => requestReactions' = EmptyMap

\* C36: the connection emits on its end and error channels only when the
\* stream ends or the transport fails, never for an inbound envelope, and an
\* end emission comes with the teardown of the pending requests
C36_EndAndErrorOnlyFromSocket == [][C36_EmitStep]_vars

(***************************************************************************)
(* C37: sendRequest after the stream has ended.                            *)
(***************************************************************************)
C37_SendAfterEndStep ==
    (socketState = "ended" /\ requestSeq' = requestSeq + 1 /\ lastEvent'.kind = "sendRequest")
        => /\ futures'[requestSeq] = Rejected(ProtocolClosed)
           /\ requestSeq \notin DOMAIN requestReactions'
           /\ timers'[requestSeq] # "armed"

\* C37: a sendRequest made once the stream has ended is rejected with
\* 'Protocol is closed' and leaves no entry in the pending map and no timer
\* running
C37_SendAfterEndRejected == [][C37_SendAfterEndStep]_vars

(***************************************************************************)
(* C38: what is settled when inspect resolves.                             *)
(***************************************************************************)
\* no variables request of the call is outstanding, and every call that made
\* a container has returned
C38_NoneOutstanding ==
    \A p \in DOMAIN tasks :
        /\ futures[p].state # "pending"
        /\ p \notin DOMAIN requestReactions
        /\ tasks[p].state = "done"

\* the container of a request the debuggee answered holds, in the order of
\* the response, a property for each child of the response, and the child's
\* value is in place: a primitive, a string, or a container of the result
C38_Populated ==
    \A id \in ReturnedContainers :
        \E p \in DOMAIN tasks :
            /\ tasks[p].id = id
            /\ futures[p].state = "fulfilled" =>
                   LET items == graph[tasks[p].ref.n].items
                       props == heap[id].props
                   IN  /\ Len(props) = Len(items)
                       /\ \A i \in DOMAIN items :
                              \E j \in DOMAIN props :
                                  /\ JStr(props[j].k) = Get(items[i], Str_name)
                                  /\ props[j].v.t = "container"
                                         => props[j].v.id \in ReturnedContainers

\* C38: when the promise inspect returned is fulfilled, no variables request
\* of the call is pending and every container reachable from the result,
\* those handed out from the reference map before they were complete
\* included, holds every child the debuggee returned for it, in whatever
\* order the responses came
C38_SettledWhenResolved == InspectResolved => (C38_NoneOutstanding /\ C38_Populated)

\* R.a = S, R.b = T, S.b = T and T.s = S, and the request for S was answered
\* after the one for T, which received S from the reference map while S was
\* empty: the result is resolved with both populated
C38_Witness ==
    /\ graph = DiamondGraph
    /\ InspectResolved
    /\ Len(heap) >= 3
    /\ \A p \in DOMAIN tasks : FetchedAndDone(p)
    /\ lastEvent = [kind |-> "data", chunk |-> VariablesChunkOf[2][DiamondGraph][2]]
    /\ PropOf(heap[3], Str_s) = Pointer(2)
    /\ PropOf(heap[2], Str_b) = Pointer(3)
    /\ C38_NoneOutstanding

(***************************************************************************)
(* C39: the order of the ProtocolEvent handler.                            *)
(***************************************************************************)
\* the protocol envelope that answers a ProtocolEvent with the information info
C39_EchoOf(info) ==
    JObj(<<Prop(Str_version, Get(info, Str_version)),
           Prop(Str_type, JStr(Str_protocol)),
           Prop(Str_target_module_uuid, Get(info, Str_targetModuleUuid)),
           Prop(Str_passcode, Get(info, Str_passcode))>>)

\* the minecraftCommand envelope of the listener's call at a protocol version
C39_CommandAt(version) ==
    LET command == <<Prop(Str_command, JStr(Str_say)),
                     Prop(Str_dimension_type, JStr(Str_overworld))>>
        own == <<Prop(Str_version, JNum(requestVersion)),
                 Prop(Str_type, JStr(Str_minecraftCommand))>>
    IN  IF version >= SupportProfilerCaptures
        THEN JObj(own \o <<Prop(Str_command, JObj(command))>>)
        ELSE JObj(own \o command)

\* the echo the handler writes for the information the session holds
C39_EchoWrites(info) == IF Truthy(info) THEN <<Packet(C39_EchoOf(info))>> ELSE <<>>

C39_ProtocolStep ==
    \A version \in Versions :
        (/\ AtFrameBoundary
         /\ dataEvents' = dataEvents + 1
         /\ lastEvent'.chunk = ProtocolChunkOf[version])
            => /\ protocolVersion' = JNum(version)
               /\ sessionEmitted' =
                      Append(sessionEmitted, [channel |-> JStr(Str_protocol),
                                              args |-> <<ProtocolEventOf(version)>>])
               /\ protocolListener = "setProtocolInfo"
                      => /\ protocolInfo' = ListenerInfo
                         /\ socketWrites' = socketWrites \o C39_EchoWrites(ListenerInfo)
               /\ protocolListener = "sendMinecraftCommand"
                      => IF version >= SupportPasscode
                         THEN /\ socketWrites' =
                                     socketWrites \o <<Packet(C39_CommandAt(version))>>
                                         \o C39_EchoWrites(protocolInfo)
                              /\ uncaught' = uncaught
                         ELSE /\ socketWrites' = socketWrites
                              /\ Len(uncaught') = Len(uncaught) + 1

\* C39: on a ProtocolEvent the MinecraftDebugSession sets protocolVersion,
\* then notifies the listeners of its protocol event, then builds the echo
\* from the protocol information it holds at that moment: a listener that
\* calls setProtocolInfo determines the echo of the same event, and a
\* listener that calls a version-gated operation is gated by the new version
C39_VersionThenListenersThenEcho == [][C39_ProtocolStep]_vars

\* the session was constructed without protocol information, the listener
\* set it while the first ProtocolEvent was handled, and the echo carries it
C39_Witness ==
    /\ protocolListener = "setProtocolInfo"
    /\ envelopesSent = 0
    /\ dataEvents = 1
    /\ lastEvent = [kind |-> "data", chunk |-> ProtocolChunkOf[SupportBreakpointsAsRequest]]
    /\ protocolVersion = JNum(SupportBreakpointsAsRequest)
    /\ protocolInfo = ListenerInfo
    /\ socketWrites = <<Packet(C39_EchoOf(ListenerInfo))>>

(***************************************************************************)
(* C40: the one debuggee of the REPL's server.                             *)
(***************************************************************************)
\* the sockets with a connection the server has neither closed nor seen end
C40_Active == {s \in Sockets : incoming[s] = "open"}

\* the three fields name one connection that has not ended, or are all null
C40_FieldsAgree ==
    /\ server.socket = server.connection
    /\ server.session = server.connection
    /\ server.connection # Null => incoming[server.connection] \in {"open", "closing"}

\* C40: at most one debuggee connection is active, the server's socket,
\* connection and session fields name the same live connection or are all
\* null, and an active connection is the one the fields name: a further
\* socket is ended and replaces nothing, and the end of a connection that
\* was reset before clears no connection accepted since
C40_OneLiveDebuggee ==
    /\ Cardinality(C40_Active) <= 1
    /\ C40_FieldsAgree
    /\ \A s \in C40_Active : server.connection = s

=============================================================================
